---- MODULE Spec2Model ----
(***************************************************************************)
(* Cloud-recording lifecycle of the SecuredLinQ backend:                   *)
(*   - agora.Client (backend/pkg/agora/client.go): makeRequest,            *)
(*     StartRecording (acquire, start), stopRecordingWithRetry;            *)
(*   - service.RecordingService (recording_service.go): StartRecording,    *)
(*     StopRecording, the activeRecordings map and its RWMutex.            *)
(* Request handlers run on workers; a handler is split into steps at its   *)
(* lock operations and at its blocking external calls.  Under Spec the     *)
(* requests are served one at a time.                                      *)
(* Strings are TLA+ strings; texts the code builds with fmt are built by   *)
(* concatenation and searched with Contains/HasSuffix character by         *)
(* character.                                                              *)
(***************************************************************************)
EXTENDS Integers, Sequences, FiniteSets, TLC

----------------------------------------------------------------------------
(* Bounds *)

\* number of concurrent request workers
NumWorkers == 2
\* number of distinct non-empty session ids the remote service issues
MaxSessions == 1
\* longest file list of a stop response
MaxFiles == 3
\* AddPrivilege calls on one AccessToken
MaxAdds == 3
\* Build calls on one AccessToken
MaxBuilds == 2

Workers == 1..NumWorkers

----------------------------------------------------------------------------
(* Text helpers (package strings, fmt) *)

\* strings.Contains(s, sub)
Contains(s, sub) ==
    \E i \in 1..(Len(s) - Len(sub) + 1) : SubSeq(s, i, i + Len(sub) - 1) = sub

\* strings.HasPrefix(s, prefix)
HasPrefix(s, prefix) ==
    /\ Len(s) >= Len(prefix)
    /\ SubSeq(s, 1, Len(prefix)) = prefix

\* strings.HasSuffix(s, suffix)
HasSuffix(s, suffix) ==
    /\ Len(s) >= Len(suffix)
    /\ SubSeq(s, Len(s) - Len(suffix) + 1, Len(s)) = suffix

Digit(d) == SubSeq("0123456789", d + 1, d + 1)

\* fmt verb %d for a non-negative integer
RECURSIVE FmtInt(_)
FmtInt(n) == IF n < 10 THEN Digit(n) ELSE FmtInt(n \div 10) \o Digit(n % 10)

\* an absent (or non-string) JSON field / a nil value
Absent == "<absent>"

----------------------------------------------------------------------------
(* agora.Client configuration *)

\* the regionMap literal of getAgoraS3Region
regionMap ==
    ("us-east-1" :> 0) @@ ("us-east-2" :> 1) @@ ("us-west-1" :> 2)
    @@ ("us-west-2" :> 3) @@ ("eu-west-1" :> 4) @@ ("eu-west-2" :> 5)
    @@ ("eu-west-3" :> 6) @@ ("eu-central-1" :> 7) @@ ("ap-southeast-1" :> 8)
    @@ ("ap-southeast-2" :> 9) @@ ("ap-northeast-1" :> 10)
    @@ ("ap-northeast-2" :> 11) @@ ("sa-east-1" :> 12) @@ ("ca-central-1" :> 13)
    @@ ("ap-south-1" :> 14) @@ ("cn-north-1" :> 15) @@ ("cn-northwest-1" :> 16)
    @@ ("us-gov-west-1" :> 17)

\* variant: an unknown region gives -1
getAgoraS3Region_noDefault(awsRegion) ==
    IF awsRegion \in DOMAIN regionMap THEN regionMap[awsRegion] ELSE -1

\* getAgoraS3Region
getAgoraS3Region(awsRegion) ==
    IF awsRegion \in DOMAIN regionMap THEN regionMap[awsRegion] ELSE 0

\* NewClient with the environment's AWS_REGION; the other settings present
NewClient(awsRegion) ==
    [appID |-> "app1", encodedKey |-> "a2V5", bucket |-> "bkt",
     accessKey |-> "AK", secretKey |-> "SK", awsRegion |-> awsRegion,
     region |-> getAgoraS3Region(awsRegion)]

ConfiguredClient == NewClient("us-west-2")

\* the configurations NewClient can produce from its environment
ClientConfigs ==
    { ConfiguredClient,
      [ConfiguredClient EXCEPT !.encodedKey = ""],
      [ConfiguredClient EXCEPT !.bucket = ""],
      [ConfiguredClient EXCEPT !.accessKey = ""],
      [ConfiguredClient EXCEPT !.secretKey = ""] }

\* Client.getBaseURL
getBaseURL(c) == "https://api.agora.io/v1/apps/" \o c.appID

----------------------------------------------------------------------------
(* Remote responses.  A response is what httpClient.Do and io.ReadAll      *)
(* deliver: a transport failure, or a status code with a body.  A body is  *)
(* either not JSON (raw text) or a JSON object whose known fields are      *)
(* listed; a field that is missing or not of the expected type is Absent   *)
(* (-1 for the numeric code).                                              *)

EmptyBody ==
    [json |-> TRUE, raw |-> "", error |-> Absent, message |-> Absent,
     reason |-> Absent, code |-> -1, resourceId |-> Absent, sid |-> Absent,
     fileList |-> <<>>, hasFileList |-> FALSE,
     srFileList |-> <<>>, hasSrFileList |-> FALSE]

NetErr == [kind |-> "neterr", status |-> 0, body |-> EmptyBody]
NoResponse == [kind |-> "none", status |-> 0, body |-> EmptyBody]
Http(status, body) == [kind |-> "http", status |-> status, body |-> body]
RawBody(text) == [EmptyBody EXCEPT !.json = FALSE, !.raw = text]

\* the operation name net/http puts in a transport error
urlErrorOp(method) == IF method = "GET" THEN "Get" ELSE "Post"

\* variant: the credential check is missing
makeRequest_noKeyCheck(c, endpoint, method, resp) ==
    IF resp.kind = "neterr"
    THEN [ok |-> FALSE, result |-> EmptyBody, sent |-> TRUE,
          err |-> "request failed: " \o urlErrorOp(method) \o " \""
                  \o getBaseURL(c) \o endpoint \o "\": EOF"]
    ELSE IF resp.status >= 400
    THEN [ok |-> FALSE, result |-> EmptyBody, sent |-> TRUE,
          err |-> "API error (status " \o FmtInt(resp.status) \o "): " \o resp.body.raw]
    ELSE [ok |-> TRUE, result |-> resp.body, sent |-> TRUE, err |-> ""]

\* Client.makeRequest: the credential check, the HTTP exchange with the
\* given response, and the decoding of the response.
\* Result: ok, the decoded object, the error text, and whether an HTTP
\* request was sent.
makeRequest(c, endpoint, method, resp) ==
    IF c.encodedKey = ""
    THEN [ok |-> FALSE, result |-> EmptyBody, sent |-> FALSE,
          err |-> "Agora REST API credentials not configured. Set AGORA_ENCODED_KEY or both AGORA_CUSTOMER_ID and AGORA_CUSTOMER_SECRET environment variables"]
    ELSE IF resp.kind = "neterr"
    THEN \* *url.Error: Post "<url>": <cause>
         [ok |-> FALSE, result |-> EmptyBody, sent |-> TRUE,
          err |-> "request failed: " \o urlErrorOp(method) \o " \""
                  \o getBaseURL(c) \o endpoint \o "\": EOF"]
    ELSE IF ~resp.body.json
    THEN IF resp.status >= 400
         THEN [ok |-> FALSE, result |-> EmptyBody, sent |-> TRUE,
               err |-> "API error (status " \o FmtInt(resp.status) \o "): " \o resp.body.raw]
         ELSE [ok |-> FALSE, result |-> EmptyBody, sent |-> TRUE,
               err |-> "failed to parse response: invalid character"]
    ELSE IF resp.status >= 400
    THEN LET errMsg == IF resp.body.error # Absent THEN resp.body.error
                       ELSE IF resp.body.message # Absent THEN resp.body.message
                       ELSE IF resp.body.reason # Absent THEN resp.body.reason
                       ELSE ""
         IN IF resp.status = 401
            THEN [ok |-> FALSE, result |-> EmptyBody, sent |-> TRUE,
                  err |-> "Invalid authentication credentials. Please verify your AGORA_CUSTOMER_ID and AGORA_CUSTOMER_SECRET (or AGORA_ENCODED_KEY). Get these from Agora Console > RESTful API"]
            ELSE [ok |-> FALSE, result |-> EmptyBody, sent |-> TRUE,
                  err |-> "API error (status " \o FmtInt(resp.status) \o "): " \o errMsg]
    ELSE [ok |-> TRUE, result |-> resp.body, sent |-> TRUE, err |-> ""]

----------------------------------------------------------------------------
(* Client.stopRecordingWithRetry: one attempt *)

\* the retry test applied to the error of makeRequest
isRetryable(errText) ==
    Contains(errText, "65") \/ Contains(errText, "request not completed")

stopEndpoint(resourceID, sid) ==
    "/cloud_recording/resourceid/" \o resourceID \o "/sid/" \o sid \o "/mode/mix/stop"

\* A file-list entry: a JSON object (isMap) with optional fileName (string),
\* fileSize and duration (numbers, -1 when absent), or a non-object value.
FileEntry(name, size, dur) ==
    [isMap |-> TRUE, fileName |-> name, fileSize |-> size, duration |-> dur]
NonMapEntry == [isMap |-> FALSE, fileName |-> Absent, fileSize |-> -1, duration |-> -1]
NoFile == [isMap |-> FALSE, fileName |-> Absent, fileSize |-> -2, duration |-> -2]

hasName(f) == f.isMap /\ f.fileName # Absent

\* the list the response carries: top-level fileList, else serverResponse.fileList
responseFileList(body) ==
    IF body.hasFileList THEN body.fileList
    ELSE IF body.hasSrFileList THEN body.srFileList
    ELSE <<>>

\* names appended to RecordingResult.FileList, in list order
RECURSIVE fileNames(_)
fileNames(fl) ==
    IF fl = <<>> THEN <<>>
    ELSE (IF hasName(Head(fl)) THEN <<Head(fl).fileName>> ELSE <<>>) \o fileNames(Tail(fl))

\* variant: the selectedFile == nil test is missing, a later .mp4 replaces
\* an earlier one
RECURSIVE selectLoop_lastMatch(_, _)
selectLoop_lastMatch(fl, selected) ==
    IF fl = <<>> THEN selected
    ELSE selectLoop_lastMatch(Tail(fl),
            IF hasName(Head(fl)) /\ HasSuffix(Head(fl).fileName, ".mp4")
            THEN Head(fl) ELSE selected)

\* the loop over fileList: selectedFile after the entries of fl, having been
\* selected before them (NoFile models nil)
RECURSIVE selectLoop(_, _)
selectLoop(fl, selected) ==
    IF fl = <<>> THEN selected
    ELSE selectLoop(Tail(fl),
            IF hasName(Head(fl)) /\ HasSuffix(Head(fl).fileName, ".mp4")
               /\ selected = NoFile
            THEN Head(fl) ELSE selected)

\* selectedFile after the loop and the fallback to fileList[0]
selectFile(fl) ==
    LET sel == selectLoop(fl, NoFile)
    IN IF sel = NoFile /\ Len(fl) > 0
       THEN (IF fl[1].isMap THEN fl[1] ELSE NoFile)
       ELSE sel

EmptyResult ==
    [Success |-> FALSE, ResourceID |-> "", SID |-> "", FileName |-> "", S3Key |-> "",
     S3URL |-> "", FileList |-> <<>>, FileSize |-> 0, Duration |-> 0]

\* the RecordingResult built from a successful stop response
stopResult(c, body) ==
    LET fl  == responseFileList(body)
        sel == selectFile(fl)
        named == Len(fl) > 0 /\ sel # NoFile /\ sel.fileName # Absent
    IN [EmptyResult EXCEPT
          !.Success  = TRUE,
          !.FileList = IF Len(fl) > 0 THEN fileNames(fl) ELSE <<>>,
          !.FileName = IF named THEN sel.fileName ELSE "",
          !.S3Key    = IF named THEN sel.fileName ELSE "",
          !.S3URL    = IF named
                       THEN "https://" \o c.bucket \o ".s3." \o c.awsRegion
                            \o ".amazonaws.com/" \o sel.fileName
                       ELSE "",
          !.FileSize = IF Len(fl) > 0 /\ sel # NoFile /\ sel.fileSize >= 0
                       THEN sel.fileSize ELSE 0,
          !.Duration = IF Len(fl) > 0 /\ sel # NoFile /\ sel.duration >= 0
                       THEN sel.duration ELSE 0]

\* retry decision of stopRecordingWithRetry after a failed attempt
shouldRetry(errText, retryCount) == isRetryable(errText) /\ retryCount < 2

\* variant: a constant backoff
retryDelay_constant(retryCount) == 3

\* backoff before the next attempt, in seconds
retryDelay(retryCount) == (retryCount + 1) * 3

----------------------------------------------------------------------------
(* External collaborators *)

\* rows of the meeting_rooms table (models.MeetingRoom); the legacy row was
\* created without a load (MeetingRepository.UpdateOrCreate)
MeetingRooms ==
    { [RoomID |-> "room1",  LoadID |-> 1, LoadNumberValid |-> TRUE,
       LoadNumber |-> "LOAD-2024-01!", Status |-> "active"],
      [RoomID |-> "legacy", LoadID |-> 0, LoadNumberValid |-> FALSE,
       LoadNumber |-> "", Status |-> "active"],
      [RoomID |-> "ended",  LoadID |-> 2, LoadNumberValid |-> TRUE,
       LoadNumber |-> "L2", Status |-> "ended"] }

NoMeeting == [RoomID |-> "", LoadID |-> 0, LoadNumberValid |-> FALSE,
              LoadNumber |-> "", Status |-> "none"]

\* variant: the status filter is missing
GetByRoomID_anyStatus(roomID) ==
    LET rows == {m \in MeetingRooms : m.RoomID = roomID}
    IN IF rows = {} THEN [err |-> TRUE, meeting |-> NoMeeting]
       ELSE [err |-> FALSE, meeting |-> CHOOSE m \in rows : TRUE]

\* MeetingRepository.GetByRoomID: the active room with that id, or an error
GetByRoomID(roomID) ==
    LET rows == {m \in MeetingRooms : m.RoomID = roomID /\ m.Status = "active"}
    IN IF rows = {} THEN [err |-> TRUE, meeting |-> NoMeeting]
       ELSE [err |-> FALSE, meeting |-> CHOOSE m \in rows : TRUE]

\* identifiers the remote service hands out
ResourceIDs == {"r1", "r65"}
SessionName(i) == "s" \o FmtInt(i)
SidPool == {""} \cup {SessionName(i) : i \in 1..MaxSessions}

\* request inputs
RoomIDs      == {"room1", "legacy", "ended"}
StartCNames  == {"c1"}
StartUIDs    == {"7"}
StopCNames   == {"c1", "c2"}
StopUIDs     == {"7", "8"}
StopRIDs     == ResourceIDs

\* responses of the acquire endpoint
AcquireResponses ==
    {NetErr, Http(500, [EmptyBody EXCEPT !.message = "internal error"]),
     Http(200, EmptyBody), Http(200, [EmptyBody EXCEPT !.resourceId = ""]),
     Http(300, [EmptyBody EXCEPT !.resourceId = "r1"])}
    \cup {Http(200, [EmptyBody EXCEPT !.resourceId = r]) : r \in ResourceIDs}

\* responses of the start endpoint; a session id is issued once
StartResponses(issuedSids) ==
    {NetErr, Http(400, [EmptyBody EXCEPT !.reason = "invalid token"]),
     Http(200, EmptyBody)}
    \cup {Http(st, [EmptyBody EXCEPT !.sid = s]) :
             st \in {200, 300}, s \in SidPool \ issuedSids}

\* file lists of a stop response for session sid
Mp4File(sid) == FileEntry(sid \o "_c1.mp4", 2048, 12)
HlsFile(sid) == FileEntry(sid \o "_c1.m3u8", 512, 12)
StopFileBodies(sid) ==
    { EmptyBody,
      [EmptyBody EXCEPT !.hasFileList = TRUE, !.fileList = <<HlsFile(sid), Mp4File(sid)>>],
      [EmptyBody EXCEPT !.hasFileList = TRUE, !.fileList = <<HlsFile(sid)>>],
      [EmptyBody EXCEPT !.hasFileList = TRUE, !.fileList = <<NonMapEntry, HlsFile(sid)>>],
      [EmptyBody EXCEPT !.hasSrFileList = TRUE, !.srFileList = <<Mp4File(sid)>>] }

\* responses of the stop endpoint
StopResponses(sid) ==
    {NetErr,
     Http(400, [EmptyBody EXCEPT !.code = 65, !.reason = "request not completed"]),
     Http(404, [EmptyBody EXCEPT !.code = 404, !.message = "no such session"]),
     Http(500, [EmptyBody EXCEPT !.code = 2, !.message = "worker 1650 unavailable"]),
     Http(401, [EmptyBody EXCEPT !.error = "bad key"]),
     Http(200, RawBody("OK")),
     Http(300, [EmptyBody EXCEPT !.hasFileList = TRUE, !.fileList = <<Mp4File(sid)>>])}
    \cup {Http(200, b) : b \in StopFileBodies(sid)}

\* responses of the query endpoint
QueryResponses ==
    {NetErr,
     Http(404, [EmptyBody EXCEPT !.code = 404, !.message = "no such session"]),
     Http(401, RawBody("Unauthorized")),
     Http(200, EmptyBody),
     Http(300, EmptyBody)}

----------------------------------------------------------------------------
(* State *)

VARIABLES
    client,            \* agora.Client fields set by NewClient
    activeRecordings,  \* RecordingService.activeRecordings: sid -> ActiveRecording
    mu,                \* RecordingService.mu: writer (0 = none) and readers
    issued,            \* session ids the remote service has issued
    started,           \* identifiers returned by Start and not yet stopped
    pc,                \* per worker: position in its handler
    req,               \* per worker: the request being served
    meeting,           \* per worker: Start's meeting row
    recording,         \* per worker: Stop's looked-up record
    retryCount,        \* per worker: stopRecordingWithRetry's retryCount
    result,            \* per worker: the agora.RecordingResult
    ret,               \* per worker: what the handler returned
    calls,             \* per worker: external calls and map writes of the current request
    tok,               \* the agora.AccessToken being built and what its calls returned
    auth,              \* AuthService: the admin account and the last validation
    load               \* LoadService: a row of the loads table and the requests on it

svcVars == <<client, activeRecordings, mu, issued, started, pc, req, meeting,
             recording, retryCount, result, ret, calls>>

vars == <<svcVars, tok, auth, load>>

\* direct: the request is a call of the agora.Client method itself, not of the
\* RecordingService method that wraps it
NoReq == [op |-> "none", RoomID |-> "", ResourceID |-> "", SID |-> "",
          ChannelName |-> "", UID |-> "", direct |-> FALSE]
StartReq(room, cname, uid) ==
    [op |-> "start", RoomID |-> room, ResourceID |-> "", SID |-> "",
     ChannelName |-> cname, UID |-> uid, direct |-> FALSE]
StopReq(rid, sid, cname, uid) ==
    [op |-> "stop", RoomID |-> "", ResourceID |-> rid, SID |-> sid,
     ChannelName |-> cname, UID |-> uid, direct |-> FALSE]
QueryReq(rid, sid) ==
    [op |-> "query", RoomID |-> "", ResourceID |-> rid, SID |-> sid,
     ChannelName |-> "", UID |-> "", direct |-> FALSE]

\* nil *ActiveRecording / exists = false
NoRecording == [ResourceID |-> "", SID |-> "", ChannelName |-> "", UID |-> "",
                LoadID |-> 0, LoadNumber |-> "", exists |-> FALSE]
ActiveRecording(rid, sid, cname, uid, loadID, loadNumber) ==
    [ResourceID |-> rid, SID |-> sid, ChannelName |-> cname, UID |-> uid,
     LoadID |-> loadID, LoadNumber |-> loadNumber, exists |-> TRUE]

NoRet == [done |-> FALSE, ok |-> FALSE, err |-> "", ResourceID |-> "", SID |-> "",
          CName |-> "", UID |-> "", FileName |-> "", S3Key |-> ""]
ErrRet(text) == [NoRet EXCEPT !.done = TRUE, !.err = text]

NoRow == [LoadID |-> 0, FileName |-> "", S3Key |-> "", VideoRecordingKey |-> ""]

\* requests sent to the four endpoints and the last response of each, the
\* endpoint the start request went to, its fileNamePrefix and region and the number of acquire requests
\* sent before it, seconds slept, calls of GalleryRepository.Create with the row
\* passed and whether it was stored, and writes to the activeRecordings map
NoCalls == [acquire |-> 0, start |-> 0, stop |-> 0, query |-> 0,
            lastAcquire |-> NoResponse, lastStart |-> NoResponse,
            lastStop |-> NoResponse, lastQuery |-> NoResponse,
            startTo |-> "", startPrefix |-> <<>>, startRegion |-> -1,
            startAfterAcquire |-> 0,
            slept |-> 0, catalog |-> 0, row |-> NoRow, created |-> FALSE,
            inserts |-> 0, deletes |-> 0]

\* no token has been made
NoToken ==
    [phase |-> "none",
     token |-> [AppID |-> "", AppCertificate |-> "", ChannelName |-> "",
                UID |-> "", Ts |-> <<0, 0>>, Salt |-> <<0, 0>>, Message |-> <<>>,
                CrcChannelName |-> <<0, 0>>, CrcUID |-> <<0, 0>>],
     adds |-> <<>>,
     in |-> [appID |-> "", appCertificate |-> "", channelName |-> "",
             uid |-> "", role |-> 0, expireSeconds |-> <<0, 0>>,
             now |-> <<0, 0>>, now2 |-> <<0, 0>>, salt |-> <<0, 0>>],
     out |-> "", err |-> "", msg |-> <<>>, sig |-> <<>>, content |-> <<>>,
     builds |-> 0]

\* AuthService with the admin account of the configuration, before any call
NoAuth ==
    [Username |-> "admin", Password |-> "password123",
     called |-> FALSE, username |-> "", password |-> "", err |-> ""]

\* the row CreateLoad stores, with no request on it; DriverID 0 is NULL
NoLoadRequest == [op |-> "none", pc |-> "idle", driverID |-> 0, status |-> "", err |-> ""]
NoLoad ==
    [Status |-> "Unassigned", DriverID |-> 0, MeetingStarted |-> FALSE,
     requests |-> [w \in Workers |-> NoLoadRequest]]

Init ==
    /\ client \in ClientConfigs
    /\ activeRecordings = [s \in {} |-> NoRecording]
    /\ mu = [writer |-> 0, readers |-> {}]
    /\ issued = {}
    /\ started = {}
    /\ pc = [w \in Workers |-> "idle"]
    /\ req = [w \in Workers |-> NoReq]
    /\ meeting = [w \in Workers |-> NoMeeting]
    /\ recording = [w \in Workers |-> NoRecording]
    /\ retryCount = [w \in Workers |-> 0]
    /\ result = [w \in Workers |-> EmptyResult]
    /\ ret = [w \in Workers |-> NoRet]
    /\ calls = [w \in Workers |-> NoCalls]
    /\ tok = NoToken
    /\ auth = NoAuth
    /\ load = NoLoad

\* a worker takes the next request: locals of the previous one are gone
Enter(w, r, first, m) ==
    /\ pc[w] \in {"idle", "done"}
    /\ pc' = [pc EXCEPT ![w] = first]
    /\ req' = [req EXCEPT ![w] = r]
    /\ meeting' = [meeting EXCEPT ![w] = m]
    /\ recording' = [recording EXCEPT ![w] = NoRecording]
    /\ retryCount' = [retryCount EXCEPT ![w] = 0]
    /\ result' = [result EXCEPT ![w] = EmptyResult]
    /\ ret' = [ret EXCEPT ![w] = NoRet]
    /\ calls' = [calls EXCEPT ![w] = NoCalls]
    /\ UNCHANGED <<auth, load, tok, client, activeRecordings, mu, issued, started>>

Begin(w, r, first) == Enter(w, r, first, NoMeeting)

\* the handler of worker w returns
Return(w, r) ==
    /\ pc' = [pc EXCEPT ![w] = "done"]
    /\ ret' = [ret EXCEPT ![w] = r]

----------------------------------------------------------------------------
(* RecordingService.StartRecording with Client.StartRecording *)

\* variant: the resourceId is left out of the path
startEndpoint_unkeyed(resourceID) ==
    "/cloud_recording/resourceid/mode/mix/start"

startEndpoint(resourceID) ==
    "/cloud_recording/resourceid/" \o resourceID \o "/mode/mix/start"

\* the characters cleanAlphanumeric keeps
AlphaNumerics == "abcdefghijklmnopqrstuvwxyzABCDEFGHIJKLMNOPQRSTUVWXYZ0123456789"

isAlphanumeric(ch) == Contains(AlphaNumerics, ch)

\* variant: the characters that are dropped each leave a "_"
RECURSIVE cleanAlphanumeric_replace(_)
cleanAlphanumeric_replace(s) ==
    IF s = "" THEN ""
    ELSE (IF isAlphanumeric(SubSeq(s, 1, 1)) THEN SubSeq(s, 1, 1) ELSE "_")
         \o cleanAlphanumeric_replace(SubSeq(s, 2, Len(s)))

\* cleanAlphanumeric: the runes of s that are ASCII letters or digits
RECURSIVE cleanAlphanumeric(_)
cleanAlphanumeric(s) ==
    IF s = "" THEN ""
    ELSE (IF isAlphanumeric(SubSeq(s, 1, 1)) THEN SubSeq(s, 1, 1) ELSE "")
         \o cleanAlphanumeric(SubSeq(s, 2, Len(s)))

\* the fileNamePrefix Client.StartRecording puts in the storage configuration
fileNamePrefix(loadNumber) ==
    IF loadNumber # "" /\ cleanAlphanumeric(loadNumber) # ""
    THEN <<"recordings", cleanAlphanumeric(loadNumber)>>
    ELSE <<"recordings">>

\* the loadNumber RecordingService.StartRecording passes to the client
loadNumberOf(m) == IF m.LoadNumberValid THEN m.LoadNumber ELSE ""

\* Client.StartRecording: configuration checks before the acquire request
startConfigError(c) ==
    IF c.appID = "" THEN "AGORA_APP_ID is not configured"
    ELSE IF c.bucket = "" THEN "AWS_S3_BUCKET_NAME is not configured for recording storage"
    ELSE IF c.accessKey = "" \/ c.secretKey = ""
    THEN "AWS credentials (AWS_ACCESS_KEY_ID, AWS_SECRET_ACCESS_KEY) are not configured for recording storage"
    ELSE ""

\* the error of Client.StartRecording, wrapped by RecordingService.StartRecording
startError(rq, errText) ==
    ErrRet(IF rq.direct THEN errText
           ELSE "failed to start Agora recording: " \o errText)

\* the handler is entered with a request
StartCall(w) ==
    \E room \in RoomIDs, cname \in StartCNames, uid \in StartUIDs :
        Begin(w, StartReq(room, cname, uid), "start_lookup")

\* meetingRepo.GetByRoomID and the load number
StartLookup(w) ==
    /\ pc[w] = "start_lookup"
    /\ LET m == GetByRoomID(req[w].RoomID)
       IN IF m.err
          THEN /\ Return(w, ErrRet("meeting room not found: record not found"))
               /\ UNCHANGED meeting
          ELSE /\ meeting' = [meeting EXCEPT ![w] = m.meeting]
               /\ pc' = [pc EXCEPT ![w] = "start_acquire"]
               /\ UNCHANGED ret
    /\ UNCHANGED <<auth, load, tok, client, activeRecordings, mu, issued, started, req,
                   recording, retryCount, result, calls>>

\* Client.StartRecording up to the acquire response, answered from responses
StartAcquireWith(w, responses) ==
    /\ pc[w] = "start_acquire"
    /\ IF startConfigError(client) # ""
       THEN /\ Return(w, startError(req[w], startConfigError(client)))
            /\ UNCHANGED <<result, calls>>
       ELSE \E resp \in responses :
              LET r == makeRequest(client, "/cloud_recording/acquire", "POST", resp)
                  sentNow == [calls EXCEPT ![w].acquire = @ + (IF r.sent THEN 1 ELSE 0),
                                           ![w].lastAcquire = IF r.sent THEN resp ELSE @]
              IN /\ calls' = sentNow
                 /\ IF ~r.ok
                    THEN /\ Return(w, startError(req[w], "acquire failed: " \o r.err))
                         /\ UNCHANGED result
                    ELSE IF r.result.resourceId = Absent \/ r.result.resourceId = ""
                    THEN /\ Return(w, startError(req[w], "failed to get resourceId from acquire response"))
                         /\ UNCHANGED result
                    ELSE /\ result' = [result EXCEPT ![w].ResourceID = r.result.resourceId]
                         /\ pc' = [pc EXCEPT ![w] = "start_start"]
                         /\ UNCHANGED ret
    /\ UNCHANGED <<auth, load, tok, client, activeRecordings, mu, issued, started, req, meeting,
                   recording, retryCount>>

StartAcquire(w) == StartAcquireWith(w, AcquireResponses)

\* Client.StartRecording: the start request and its response, from responses
StartStartWith(w, responses) ==
    /\ pc[w] = "start_start"
    /\ \E resp \in responses :
         LET r == makeRequest(client, startEndpoint(result[w].ResourceID), "POST", resp)
         IN /\ calls' = [calls EXCEPT ![w].start = @ + (IF r.sent THEN 1 ELSE 0),
                                       ![w].lastStart = IF r.sent THEN resp ELSE @,
                                       ![w].startTo = IF r.sent
                                                      THEN startEndpoint(result[w].ResourceID)
                                                      ELSE @,
                                       ![w].startPrefix = IF r.sent
                                                          THEN fileNamePrefix(loadNumberOf(meeting[w]))
                                                          ELSE @,
                                       ![w].startRegion = IF r.sent THEN client.region ELSE @,
                                       ![w].startAfterAcquire = IF r.sent
                                                                THEN calls[w].acquire
                                                                ELSE @]
            /\ issued' = IF r.sent /\ resp.kind = "http" /\ resp.body.sid # Absent
                         THEN issued \cup {resp.body.sid} ELSE issued
            /\ IF ~r.ok
               THEN /\ Return(w, startError(req[w], "start recording failed: " \o r.err))
                    /\ UNCHANGED result
               ELSE IF r.result.sid = Absent
               THEN /\ Return(w, startError(req[w], "failed to get sid from start response"))
                    /\ UNCHANGED result
               ELSE /\ result' = [result EXCEPT ![w].SID = r.result.sid, ![w].Success = TRUE]
                    /\ pc' = [pc EXCEPT ![w] = "start_lock"]
                    /\ UNCHANGED ret
    /\ UNCHANGED <<auth, load, tok, client, activeRecordings, mu, started, req, meeting,
                   recording, retryCount>>

StartStart(w) == StartStartWith(w, StartResponses(issued))

\* sync.RWMutex: the goroutines blocked in Lock and in RLock.  A writer that
\* waits holds back new readers; Unlock admits the readers that are blocked.
WaitingWriters == {v \in Workers : pc[v] \in {"start_lock", "stop_lock"}}
BlockedReaders == {v \in Workers : pc[v] = "stop_rlock"}

\* s.mu.Unlock() by worker w, whose handler then returns r
UnlockAndReturn(w, r) ==
    /\ mu' = [writer |-> 0, readers |-> BlockedReaders]
    /\ pc' = [v \in Workers |->
                IF v = w THEN "done"
                ELSE IF v \in BlockedReaders THEN "stop_lookup" ELSE pc[v]]
    /\ ret' = [ret EXCEPT ![w] = r]

\* s.mu.Lock()
StartLock(w) ==
    /\ pc[w] = "start_lock"
    /\ mu.writer = 0 /\ mu.readers = {}
    /\ mu' = [mu EXCEPT !.writer = w]
    /\ pc' = [pc EXCEPT ![w] = "start_insert"]
    /\ UNCHANGED <<auth, load, tok, client, activeRecordings, issued, started, req, meeting,
                   recording, retryCount, result, ret, calls>>

\* variant: ChannelName and UID are stored in each other's field
startRecord_swapped(rq, res, m) ==
    ActiveRecording(res.ResourceID, res.SID, rq.UID, rq.ChannelName, m.LoadID,
                    IF m.LoadNumberValid THEN m.LoadNumber ELSE "")

\* the record Start stores
startRecord(rq, res, m) ==
    ActiveRecording(res.ResourceID, res.SID, rq.ChannelName, rq.UID, m.LoadID,
                    IF m.LoadNumberValid THEN m.LoadNumber ELSE "")

\* map assignment m[k] = v
mapPut(m, k, v) == [x \in DOMAIN m \cup {k} |-> IF x = k THEN v ELSE m[x]]
\* variant: nothing is deleted
mapDelete_keep(m, k) == m

\* delete(m, k)
mapDelete(m, k) == [x \in DOMAIN m \ {k} |-> m[x]]

\* s.activeRecordings[result.SID] = ...; s.mu.Unlock(); return
StartInsert(w) ==
    /\ pc[w] = "start_insert"
    /\ activeRecordings' = mapPut(activeRecordings, result[w].SID,
                                  startRecord(req[w], result[w], meeting[w]))
    /\ calls' = [calls EXCEPT ![w].inserts = @ + 1]
    /\ UnlockAndReturn(w, [NoRet EXCEPT !.done = TRUE, !.ok = TRUE,
                                        !.ResourceID = result[w].ResourceID,
                                        !.SID = result[w].SID,
                                        !.CName = req[w].ChannelName,
                                        !.UID = req[w].UID])
    /\ started' = started \cup {[ResourceID |-> result[w].ResourceID,
                                  SID |-> result[w].SID,
                                  CName |-> req[w].ChannelName,
                                  UID |-> req[w].UID]}
    /\ UNCHANGED <<auth, load, tok, client, issued, req, meeting, recording,
                   retryCount, result>>

----------------------------------------------------------------------------
(* RecordingService.StopRecording with Client.StopRecording *)

StopCall(w) ==
    \E rid \in StopRIDs, sid \in SidPool, cname \in StopCNames, uid \in StopUIDs :
        Begin(w, StopReq(rid, sid, cname, uid), "stop_rlock")

\* variant: the read lock is granted while a writer holds the lock
StopRLock_noWait(w) ==
    /\ pc[w] = "stop_rlock"
    /\ mu' = [mu EXCEPT !.readers = @ \cup {w}]
    /\ pc' = [pc EXCEPT ![w] = "stop_lookup"]
    /\ UNCHANGED <<auth, load, tok, client, activeRecordings, issued, started, req, meeting,
                   recording, retryCount, result, ret, calls>>

\* s.mu.RLock(): granted when no writer holds the lock or waits for it
StopRLock(w) ==
    /\ pc[w] = "stop_rlock"
    /\ mu.writer = 0
    /\ WaitingWriters = {}
    /\ mu' = [mu EXCEPT !.readers = @ \cup {w}]
    /\ pc' = [pc EXCEPT ![w] = "stop_lookup"]
    /\ UNCHANGED <<auth, load, tok, client, activeRecordings, issued, started, req, meeting,
                   recording, retryCount, result, ret, calls>>

\* recording, exists := s.activeRecordings[sid]
mapGet(m, k) == IF k \in DOMAIN m THEN m[k] ELSE NoRecording

\* the texts of the four validation errors
notFoundText(rq) ==
    "recording not found for sid: " \o rq.SID
    \o ". Make sure the recording was started and the SID matches."
resourceMismatchText(rec, rq) ==
    "resourceId mismatch. Expected: " \o rec.ResourceID \o ", Got: " \o rq.ResourceID
channelMismatchText(rec, rq) ==
    "channelName mismatch. Expected: " \o rec.ChannelName \o ", Got: " \o rq.ChannelName
uidMismatchText(rec, rq) ==
    "UID mismatch. The UID used to stop recording (" \o rq.UID
    \o ") must match the UID used to start recording (" \o rec.UID \o ")"

\* variant: the existence check is missing
stopValidation_noExists(rec, rq) ==
    IF rec.ResourceID # rq.ResourceID THEN resourceMismatchText(rec, rq)
    ELSE IF rec.ChannelName # rq.ChannelName THEN channelMismatchText(rec, rq)
    ELSE IF rec.UID # rq.UID THEN uidMismatchText(rec, rq)
    ELSE ""

\* variant: the UID check is missing
stopValidation_noUID(rec, rq) ==
    IF ~rec.exists THEN notFoundText(rq)
    ELSE IF rec.ResourceID # rq.ResourceID THEN resourceMismatchText(rec, rq)
    ELSE IF rec.ChannelName # rq.ChannelName THEN channelMismatchText(rec, rq)
    ELSE ""

\* variant: the UID is checked before the resourceId
stopValidation_uidFirst(rec, rq) ==
    IF ~rec.exists THEN notFoundText(rq)
    ELSE IF rec.UID # rq.UID THEN uidMismatchText(rec, rq)
    ELSE IF rec.ResourceID # rq.ResourceID THEN resourceMismatchText(rec, rq)
    ELSE IF rec.ChannelName # rq.ChannelName THEN channelMismatchText(rec, rq)
    ELSE ""

\* the local validation of StopRecording: "" when the request passes
stopValidation(rec, rq) ==
    IF ~rec.exists THEN notFoundText(rq)
    ELSE IF rec.ResourceID # rq.ResourceID THEN resourceMismatchText(rec, rq)
    ELSE IF rec.ChannelName # rq.ChannelName THEN channelMismatchText(rec, rq)
    ELSE IF rec.UID # rq.UID THEN uidMismatchText(rec, rq)
    ELSE ""

\* variant: the read lock is kept until the handler returns
StopLookup_keepLock(w) ==
    /\ pc[w] = "stop_lookup"
    /\ LET rec == mapGet(activeRecordings, req[w].SID)
           verdict == stopValidation(rec, req[w])
       IN /\ recording' = [recording EXCEPT ![w] = rec]
          /\ IF verdict # ""
             THEN /\ Return(w, ErrRet(verdict))
                  /\ mu' = [mu EXCEPT !.readers = @ \ {w}]
             ELSE /\ pc' = [pc EXCEPT ![w] = "stop_remote"]
                  /\ UNCHANGED <<ret, mu>>
    /\ UNCHANGED <<auth, load, tok, client, activeRecordings, issued, started, req,
                   meeting, retryCount, result, calls>>

\* the map read under the read lock, s.mu.RUnlock(), and the validation
StopLookup(w) ==
    /\ pc[w] = "stop_lookup"
    /\ LET rec == mapGet(activeRecordings, req[w].SID)
           verdict == stopValidation(rec, req[w])
       IN /\ recording' = [recording EXCEPT ![w] = rec]
          /\ IF verdict # ""
             THEN Return(w, ErrRet(verdict))
             ELSE /\ pc' = [pc EXCEPT ![w] = "stop_remote"]
                  /\ UNCHANGED ret
    /\ mu' = [mu EXCEPT !.readers = @ \ {w}]
    /\ UNCHANGED <<auth, load, tok, client, activeRecordings, issued, started, req, meeting,
                   retryCount, result, calls>>

\* variant: the client's error is dropped and success is returned
stopError_swallowed(errText) ==
    [NoRet EXCEPT !.done = TRUE, !.ok = TRUE]

\* the error StopRecording returns when the client's stop fails
stopError(errText) ==
    ErrRet("failed to stop Agora recording: stop recording failed: " \o errText)

\* the error of Client.stopRecordingWithRetry itself
clientStopError(errText) == ErrRet("stop recording failed: " \o errText)

\* one attempt of Client.stopRecordingWithRetry, answered from responses
StopRemoteWith(w, responses) ==
    /\ pc[w] = "stop_remote"
    /\ \E resp \in responses :
         LET r == makeRequest(client, stopEndpoint(req[w].ResourceID, req[w].SID), "POST", resp)
         IN /\ calls' = [calls EXCEPT ![w].stop = @ + (IF r.sent THEN 1 ELSE 0),
                                       ![w].lastStop = IF r.sent THEN resp ELSE @]
            /\ IF ~r.ok
               THEN IF shouldRetry(r.err, retryCount[w])
                    THEN /\ pc' = [pc EXCEPT ![w] = "stop_sleep"]
                         /\ UNCHANGED <<ret, result>>
                    ELSE /\ Return(w, IF req[w].direct THEN clientStopError(r.err)
                                          ELSE stopError(r.err))
                         /\ UNCHANGED result
               ELSE /\ result' = [result EXCEPT ![w] = stopResult(client, r.result)]
                    /\ pc' = [pc EXCEPT ![w] = "stop_catalog"]
                    /\ UNCHANGED ret
    /\ UNCHANGED <<auth, load, tok, client, activeRecordings, mu, issued, started, req, meeting,
                   recording, retryCount>>

StopRemote(w) == StopRemoteWith(w, StopResponses(req[w].SID))

\* time.Sleep(delay) and the recursive call with retryCount+1
StopSleep(w) ==
    /\ pc[w] = "stop_sleep"
    /\ calls' = [calls EXCEPT ![w].slept = @ + retryDelay(retryCount[w])]
    /\ retryCount' = [retryCount EXCEPT ![w] = @ + 1]
    /\ pc' = [pc EXCEPT ![w] = "stop_remote"]
    /\ UNCHANGED <<auth, load, tok, client, activeRecordings, mu, issued, started, req, meeting,
                   recording, result, ret>>

\* whether StopRecording writes the gallery row
savesToGallery(res, rec) == res.S3Key # "" /\ rec.LoadID > 0

\* variant: the key is stored in S3Key instead of VideoRecordingKey
galleryRow_wrongColumn(res, rec) ==
    [LoadID |-> rec.LoadID, FileName |-> res.FileName, S3Key |-> res.S3Key,
     VideoRecordingKey |-> ""]

\* the models.Gallery row StopRecording builds
galleryRow(res, rec) ==
    [LoadID |-> rec.LoadID, FileName |-> res.FileName, S3Key |-> "",
     VideoRecordingKey |-> res.S3Key]

\* the gallery write after a successful remote stop; Create may fail
StopCatalog(w) ==
    /\ pc[w] = "stop_catalog"
    /\ IF savesToGallery(result[w], recording[w])
       THEN \E created \in BOOLEAN :
              calls' = [calls EXCEPT ![w].catalog = @ + 1,
                                     ![w].row = galleryRow(result[w], recording[w]),
                                     ![w].created = created]
       ELSE UNCHANGED calls
    /\ pc' = [pc EXCEPT ![w] = "stop_lock"]
    /\ UNCHANGED <<auth, load, tok, client, activeRecordings, mu, issued, started, req, meeting,
                   recording, retryCount, result, ret>>

\* s.mu.Lock()
StopLock(w) ==
    /\ pc[w] = "stop_lock"
    /\ mu.writer = 0 /\ mu.readers = {}
    /\ mu' = [mu EXCEPT !.writer = w]
    /\ pc' = [pc EXCEPT ![w] = "stop_delete"]
    /\ UNCHANGED <<auth, load, tok, client, activeRecordings, issued, started, req, meeting,
                   recording, retryCount, result, ret, calls>>

\* delete(s.activeRecordings, req.SID); s.mu.Unlock(); return
StopDelete(w) ==
    /\ pc[w] = "stop_delete"
    /\ activeRecordings' = mapDelete(activeRecordings, req[w].SID)
    /\ calls' = [calls EXCEPT ![w].deletes = @ + 1]
    /\ UnlockAndReturn(w, [NoRet EXCEPT !.done = TRUE, !.ok = TRUE,
                                        !.FileName = result[w].FileName,
                                        !.S3Key = result[w].S3Key])
    /\ started' = {t \in started : t.SID # req[w].SID}
    /\ UNCHANGED <<auth, load, tok, client, issued, req, meeting, recording,
                   retryCount, result>>

----------------------------------------------------------------------------
(* RecordingService.QueryRecording with Client.QueryRecording *)

queryEndpoint(resourceID, sid) ==
    "/cloud_recording/resourceid/" \o resourceID \o "/sid/" \o sid \o "/mode/mix/query"

QueryCall(w) ==
    \E rid \in StopRIDs, sid \in SidPool :
        Begin(w, QueryReq(rid, sid), "query_remote")

\* the query request; the decoded object or the error is passed through
QueryRemote(w) ==
    /\ pc[w] = "query_remote"
    /\ \E resp \in QueryResponses :
         LET r == makeRequest(client, queryEndpoint(req[w].ResourceID, req[w].SID),
                              "GET", resp)
         IN /\ calls' = [calls EXCEPT ![w].query = @ + (IF r.sent THEN 1 ELSE 0),
                                       ![w].lastQuery = IF r.sent THEN resp ELSE @]
            /\ IF r.ok
               THEN Return(w, [NoRet EXCEPT !.done = TRUE, !.ok = TRUE])
               ELSE Return(w, ErrRet(r.err))
    /\ UNCHANGED <<auth, load, tok, client, activeRecordings, mu, issued, started, req, meeting,
                   recording, retryCount, result>>

----------------------------------------------------------------------------

\* no other worker has taken a request.  This is the scope of Spec, not a
\* guarantee of the code: net/http runs the handlers concurrently, and the
\* step actions above are written so that they can be interleaved.
Serial(w) == \A v \in Workers \ {w} : pc[v] = "idle"

Next ==
    \E w \in Workers :
        \/ Serial(w) /\ StartCall(w)
        \/ StartLookup(w)
        \/ StartAcquire(w)
        \/ StartStart(w)
        \/ StartLock(w)
        \/ StartInsert(w)
        \/ Serial(w) /\ StopCall(w)
        \/ StopRLock(w)
        \/ StopLookup(w)
        \/ StopRemote(w)
        \/ StopSleep(w)
        \/ StopCatalog(w)
        \/ StopLock(w)
        \/ StopDelete(w)
        \/ Serial(w) /\ QueryCall(w)
        \/ QueryRemote(w)

Spec == Init /\ [][Next]_vars

----------------------------------------------------------------------------
(* The exported methods of agora.Client called directly: the steps are those *)
(* above, entered without the service's lookup and validation.               *)

\* entity labels passed as loadNumber
Labels == {"", "LOAD-2024-01!", "- -", "Z9", "a_b c"}

\* the loadNumber argument, carried where the service keeps its meeting row
LabelArg(label) ==
    [NoMeeting EXCEPT !.LoadNumberValid = TRUE, !.LoadNumber = label]

\* Client.StartRecording(channelName, uid, token, loadNumber)
ClientStartCall(w) ==
    \E cname \in StartCNames, uid \in StartUIDs, label \in Labels :
        Enter(w, [StartReq("", cname, uid) EXCEPT !.direct = TRUE],
              "start_acquire", LabelArg(label))

\* Client.StopRecording(resourceID, sid, uid, channelName)
ClientStopCall(w) ==
    \E rid \in StopRIDs, sid \in SidPool, cname \in StartCNames, uid \in StartUIDs :
        Begin(w, [StopReq(rid, sid, cname, uid) EXCEPT !.direct = TRUE], "stop_remote")

\* Client.QueryRecording(resourceID, sid)
ClientQueryCall(w) ==
    \E rid \in StopRIDs, sid \in SidPool :
        Begin(w, [QueryReq(rid, sid) EXCEPT !.direct = TRUE], "query_remote")

\* return &RecordingResult{...}, nil of StartRecording and stopRecordingWithRetry
ClientReturn(w) ==
    /\ pc[w] \in {"start_lock", "stop_catalog"}
    /\ req[w].direct
    /\ Return(w, [NoRet EXCEPT !.done = TRUE, !.ok = TRUE,
                               !.ResourceID = result[w].ResourceID,
                               !.SID = result[w].SID,
                               !.FileName = result[w].FileName,
                               !.S3Key = result[w].S3Key])
    /\ UNCHANGED <<auth, load, tok, client, activeRecordings, mu, issued, started, req, meeting,
                   recording, retryCount, result, calls>>

ClientNext ==
    \E w \in Workers :
        \/ Serial(w) /\ ClientStartCall(w)
        \/ StartAcquire(w)
        \/ StartStart(w)
        \/ Serial(w) /\ ClientStopCall(w)
        \/ StopRemote(w)
        \/ StopSleep(w)
        \/ Serial(w) /\ ClientQueryCall(w)
        \/ QueryRemote(w)
        \/ ClientReturn(w)

ClientSpec == Init /\ [][ClientNext]_vars

----------------------------------------------------------------------------
(* Client.StartRecording of clients built for every AWS_REGION *)

\* values of AWS_REGION: the names of the table, no value, names not in it
RegionInputs ==
    DOMAIN regionMap \cup {"", "us-west-3", "US-WEST-2", "us-west-2 ", "3"}

RegionInit ==
    /\ client \in {NewClient(r) : r \in RegionInputs}
    /\ activeRecordings = [s \in {} |-> NoRecording]
    /\ mu = [writer |-> 0, readers |-> {}]
    /\ issued = {}
    /\ started = {}
    /\ pc = [w \in Workers |-> "idle"]
    /\ req = [w \in Workers |-> NoReq]
    /\ meeting = [w \in Workers |-> NoMeeting]
    /\ recording = [w \in Workers |-> NoRecording]
    /\ retryCount = [w \in Workers |-> 0]
    /\ result = [w \in Workers |-> EmptyResult]
    /\ ret = [w \in Workers |-> NoRet]
    /\ calls = [w \in Workers |-> NoCalls]
    /\ tok = NoToken
    /\ auth = NoAuth
    /\ load = NoLoad

RegionNext ==
    \E w \in Workers :
        \/ Serial(w) /\ ClientStartCall(w)
        \/ StartAcquire(w)
        \/ StartStart(w)
        \/ ClientReturn(w)

RegionSpec == RegionInit /\ [][RegionNext]_vars

----------------------------------------------------------------------------
(* Client.StopRecording answered with every file list up to MaxFiles entries *)

\* entries of a file list: two .mp4 files, a playlist, an object without a
\* fileName, a value that is not an object
FileEntries ==
    { FileEntry("a.mp4", 100, 10), FileEntry("b.mp4", 200, 20),
      FileEntry("a.m3u8", 300, 30), FileEntry(Absent, 400, 40), NonMapEntry }

RECURSIVE FileLists(_)
FileLists(n) ==
    IF n = 0 THEN {<<>>}
    ELSE FileLists(n - 1)
         \cup {Append(fl, e) : fl \in {l \in FileLists(n - 1) : Len(l) = n - 1},
                               e \in FileEntries}

\* successful stop responses: the list at top level, under serverResponse,
\* or in neither place
FileListResponses ==
    {Http(200, EmptyBody)}
    \cup {Http(200, [EmptyBody EXCEPT !.hasFileList = TRUE, !.fileList = fl]) :
             fl \in FileLists(MaxFiles)}
    \cup {Http(200, [EmptyBody EXCEPT !.hasSrFileList = TRUE, !.srFileList = fl]) :
             fl \in FileLists(MaxFiles)}

StopRemoteFiles(w) == StopRemoteWith(w, FileListResponses)

FilesInit == Init /\ client = ConfiguredClient

FilesNext ==
    \E w \in Workers :
        \/ Serial(w) /\ ClientStopCall(w)
        \/ StopRemoteFiles(w)
        \/ ClientReturn(w)

FilesSpec == FilesInit /\ [][FilesNext]_vars

----------------------------------------------------------------------------
(* Concurrent requests: net/http serves every request on a goroutine of its *)
(* own, so the steps of the handlers interleave freely.  The remote service *)
(* answers acquire with a resourceId, start with a fresh session id or a    *)
(* transport error, and stop with a file list or the retryable code 65.     *)

ConcStartCall(w) == Begin(w, StartReq("room1", "c1", "7"), "start_lookup")

ConcStartAcquire(w) ==
    StartAcquireWith(w, {Http(200, [EmptyBody EXCEPT !.resourceId = "r1"])})

ConcStartStart(w) ==
    StartStartWith(w, {NetErr} \cup {Http(200, [EmptyBody EXCEPT !.sid = sid]) :
                                        sid \in SidPool \ (issued \cup {""})})

\* a Stop request carries a session id that a start response handed out
ConcStopCall(w) ==
    \E sid \in issued \ {""} :
        Begin(w, StopReq("r1", sid, "c1", "7"), "stop_rlock")

\* the first attempt is answered with code 65 (the recording is still being
\* finalised), the next one with the file list
ConcStopRemote(w) ==
    StopRemoteWith(w,
        IF retryCount[w] = 0
        THEN {Http(400, [EmptyBody EXCEPT !.code = 65,
                                          !.reason = "request not completed"])}
        ELSE {Http(200, [EmptyBody EXCEPT
                           !.hasFileList = TRUE,
                           !.fileList = <<HlsFile(req[w].SID), Mp4File(req[w].SID)>>])})

\* the gallery row is stored
ConcStopCatalog(w) ==
    /\ StopCatalog(w)
    /\ calls'[w].catalog > calls[w].catalog => calls'[w].created

ConcNext ==
    \E w \in Workers :
        \/ ConcStartCall(w)
        \/ StartLookup(w)
        \/ ConcStartAcquire(w)
        \/ ConcStartStart(w)
        \/ StartLock(w)
        \/ StartInsert(w)
        \/ ConcStopCall(w)
        \/ StopRLock(w)
        \/ StopLookup(w)
        \/ ConcStopRemote(w)
        \/ StopSleep(w)
        \/ ConcStopCatalog(w)
        \/ StopLock(w)
        \/ StopDelete(w)

ConcSpec == FilesInit /\ [][ConcNext]_vars

\* sync.RWMutex hands the lock to a goroutine that keeps asking for it (a
\* waiting writer holds back new readers, a starving waiter is served
\* first), and a goroutine that holds the lock runs on to its unlock
ConcFairness ==
    \A w \in Workers :
        /\ SF_vars(StartLock(w) \/ StopRLock(w) \/ StopLock(w))
        /\ WF_vars(StartInsert(w) \/ StopLookup(w) \/ StopDelete(w))

ConcFairSpec == ConcSpec /\ ConcFairness

----------------------------------------------------------------------------
(* service.AuthService: ValidateAdminCredentials *)

\* the service with no request in progress and a configured client
ServiceIdle ==
    /\ client = ConfiguredClient
    /\ activeRecordings = [s \in {} |-> NoRecording]
    /\ mu = [writer |-> 0, readers |-> {}]
    /\ issued = {}
    /\ started = {}
    /\ pc = [w \in Workers |-> "idle"]
    /\ req = [w \in Workers |-> NoReq]
    /\ meeting = [w \in Workers |-> NoMeeting]
    /\ recording = [w \in Workers |-> NoRecording]
    /\ retryCount = [w \in Workers |-> 0]
    /\ result = [w \in Workers |-> EmptyResult]
    /\ ret = [w \in Workers |-> NoRet]
    /\ calls = [w \in Workers |-> NoCalls]

\* the texts of the error values; "" is nil
ErrUserNotFound == "user not found"
ErrInvalidPassword == "invalid password"

\* variant: the password is compared before the username
ValidateAdminCredentials_passwordFirst(config, username, password) ==
    IF username = config.Username /\ password = config.Password THEN ""
    ELSE IF password # config.Password THEN ErrInvalidPassword
    ELSE ErrUserNotFound

\* AuthService.ValidateAdminCredentials
ValidateAdminCredentials(config, username, password) ==
    IF username = config.Username /\ password = config.Password THEN ""
    ELSE IF username = config.Username THEN ErrInvalidPassword
    ELSE ErrUserNotFound

\* the admin accounts of the configuration, and the credentials presented
AdminUsernames == {"admin", "root", ""}
AdminPasswords == {"password123", "hunter2", ""}
LoginUsernames == {"admin", "Admin", "wronguser", "root", ""}
LoginPasswords == {"password123", "wrongpassword", "hunter2", ""}

AuthInit ==
    /\ ServiceIdle
    /\ tok = NoToken
    /\ load = NoLoad
    /\ auth \in {[NoAuth EXCEPT !.Username = u, !.Password = p] :
                   u \in AdminUsernames, p \in AdminPasswords}

\* a call of ValidateAdminCredentials
AuthValidate ==
    /\ \E u \in LoginUsernames, p \in LoginPasswords :
         auth' = [auth EXCEPT !.called = TRUE, !.username = u, !.password = p,
                              !.err = ValidateAdminCredentials(auth, u, p)]
    /\ UNCHANGED <<svcVars, tok, load>>

AuthNext == AuthValidate

AuthSpec == AuthInit /\ [][AuthNext]_vars

(***************************************************************************)
(* Loads (load_service.go, load_repository.go).  One load row, created     *)
(* "Unassigned" with no driver (DriverID 0 is the NULL column).  A request  *)
(* of worker w is load.requests[w]; every call of the repository is a      *)
(* step of its own, since the service runs them outside any transaction.   *)
(***************************************************************************)
\* the drivers of the drivers table, and the driver ids and statuses that
\* requests carry
LoadDrivers == {1, 2}
LoadDriverIDs == {0, 1, 2}
LoadStatuses == {"Assigned", "Completed"}

LoadRequestIdle(w) == load.requests[w].pc \in {"idle", "done"}

LoadEnter(w, r) ==
    /\ LoadRequestIdle(w)
    /\ load' = [load EXCEPT !.requests[w] = r]
    /\ UNCHANGED <<svcVars, tok, auth>>

\* the request of worker w moves to step p
LoadGoto(w, p) ==
    /\ load' = [load EXCEPT !.requests[w].pc = p]
    /\ UNCHANGED <<svcVars, tok, auth>>

\* the request of worker w returns err ("" is nil)
LoadReturn(w, err) ==
    /\ load' = [load EXCEPT !.requests[w].pc = "done", !.requests[w].err = err]
    /\ UNCHANGED <<svcVars, tok, auth>>

\* LoadService.AssignDriverToLoad(loadID, driverID) is called
LoadAssignCall(w) ==
    \E d \in LoadDriverIDs :
        LoadEnter(w, [NoLoadRequest EXCEPT !.op = "assign", !.pc = "assign_driver",
                                           !.driverID = d])

\* s.driverRepo.GetByID(driverID)
LoadAssignDriver(w) ==
    /\ load.requests[w].pc = "assign_driver"
    /\ IF load.requests[w].driverID \notin LoadDrivers
       THEN LoadReturn(w, "driver not found")
       ELSE LoadGoto(w, "assign_read")

\* s.loadRepo.GetByID(loadID) and the check of load.Status
LoadAssignRead(w) ==
    /\ load.requests[w].pc = "assign_read"
    /\ IF load.Status = "Completed"
       THEN LoadReturn(w, "cannot assign driver to completed load")
       ELSE LoadGoto(w, "assign_write")

\* s.loadRepo.AssignDriver(loadID, driverID)
LoadAssignWrite(w) ==
    /\ load.requests[w].pc = "assign_write"
    /\ load' = [load EXCEPT !.DriverID = load.requests[w].driverID,
                            !.Status = "Assigned",
                            !.requests[w].pc = "done"]
    /\ UNCHANGED <<svcVars, tok, auth>>

\* LoadService.UpdateLoadStatus(loadID, status, driverID) is called;
\* MarkLoadCompleted is the call with status "Completed"
LoadUpdateCall(w) ==
    \E d \in LoadDriverIDs, st \in LoadStatuses :
        LoadEnter(w, [NoLoadRequest EXCEPT !.op = "update", !.pc = "update_read",
                                           !.driverID = d, !.status = st])

\* validStatuses[current]: the statuses that may follow, or "none" when the
\* current status is no key of the map
validStatuses(current) ==
    IF current = "Assigned" THEN {"Completed"}
    ELSE IF current = "Completed" THEN {}
    ELSE {"none"}

\* s.loadRepo.GetByID(loadID) and the checks of the owner and the transition
LoadUpdateRead(w) ==
    /\ load.requests[w].pc = "update_read"
    /\ IF load.DriverID = 0 \/ load.DriverID # load.requests[w].driverID
       THEN LoadReturn(w, "you are not authorized to update this load")
       ELSE IF load.Status \notin {"Assigned", "Completed"}
       THEN LoadReturn(w, "invalid current status")
       ELSE IF load.requests[w].status \notin validStatuses(load.Status)
       THEN LoadReturn(w, "invalid status transition")
       ELSE LoadGoto(w, "update_write")

\* s.loadRepo.MarkCompleted(loadID), or s.loadRepo.UpdateStatus(loadID, status)
LoadUpdateWrite(w) ==
    /\ load.requests[w].pc = "update_write"
    /\ load' = [load EXCEPT !.Status = load.requests[w].status,
                            !.requests[w].pc = "done"]
    /\ UNCHANGED <<svcVars, tok, auth>>

\* LoadService.StartMeeting(loadID) is called
LoadMeetingCall(w) ==
    LoadEnter(w, [NoLoadRequest EXCEPT !.op = "meeting", !.pc = "meeting_read"])

\* s.loadRepo.GetByID(loadID) and the check of load.Status
LoadMeetingRead(w) ==
    /\ load.requests[w].pc = "meeting_read"
    /\ IF load.Status # "Completed"
       THEN LoadReturn(w, "can only start meeting for completed loads")
       ELSE LoadGoto(w, "meeting_write")

\* s.loadRepo.SetMeetingStarted(loadID, true)
LoadMeetingWrite(w) ==
    /\ load.requests[w].pc = "meeting_write"
    /\ load' = [load EXCEPT !.MeetingStarted = TRUE,
                            !.requests[w].pc = "meeting_refresh"]
    /\ UNCHANGED <<svcVars, tok, auth>>

\* s.loadRepo.GetByID(loadID): the refreshed load is returned
LoadMeetingRefresh(w) ==
    /\ load.requests[w].pc = "meeting_refresh"
    /\ load' = [load EXCEPT !.requests[w].pc = "done",
                            !.requests[w].status = load.Status,
                            !.requests[w].driverID = load.DriverID]
    /\ UNCHANGED <<svcVars, tok, auth>>

LoadInit ==
    /\ ServiceIdle
    /\ tok = NoToken
    /\ auth = NoAuth
    /\ load = NoLoad

\* requests of all workers, interleaved at the calls of the repository
LoadNext ==
    \E w \in Workers :
        \/ LoadAssignCall(w)
        \/ LoadAssignDriver(w)
        \/ LoadAssignRead(w)
        \/ LoadAssignWrite(w)
        \/ LoadUpdateCall(w)
        \/ LoadUpdateRead(w)
        \/ LoadUpdateWrite(w)
        \/ LoadMeetingCall(w)
        \/ LoadMeetingRead(w)
        \/ LoadMeetingWrite(w)
        \/ LoadMeetingRefresh(w)

LoadSpec == LoadInit /\ [][LoadNext]_vars

\* requests served one after the other
LoadSerial(w) == \A v \in Workers \ {w} : LoadRequestIdle(v)

LoadSerialNext ==
    \E w \in Workers :
        /\ LoadSerial(w)
        /\ \/ LoadAssignCall(w)
           \/ LoadAssignDriver(w)
           \/ LoadAssignRead(w)
           \/ LoadAssignWrite(w)
           \/ LoadUpdateCall(w)
           \/ LoadUpdateRead(w)
           \/ LoadUpdateWrite(w)
           \/ LoadMeetingCall(w)
           \/ LoadMeetingRead(w)
           \/ LoadMeetingWrite(w)
           \/ LoadMeetingRefresh(w)

LoadSerialSpec == LoadInit /\ [][LoadSerialNext]_vars

----------------------------------------------------------------------------
(* Bytes and fixed-width integers (token.go).  A byte is a number in        *)
(* 0..255, a []byte a sequence of bytes.  A uint32 is the pair <<hi, lo>> of *)
(* its 16-bit halves, so that sums wrap modulo 2^32 as in Go.                *)

\* uint32 of a number below 2^31
U32(n) == <<n \div 65536, n % 65536>>

\* uint32 addition
addU32(a, b) ==
    LET lo == a[2] + b[2]
    IN <<(a[1] + b[1] + (lo \div 65536)) % 65536, lo % 65536>>

\* a < b for uint32
ltU32(a, b) == a[1] < b[1] \/ (a[1] = b[1] /\ a[2] < b[2])

\* bitwise exclusive or of two n-bit numbers
RECURSIVE xorBits(_, _, _)
xorBits(a, b, n) ==
    IF n = 0 THEN 0
    ELSE (((a % 2) + (b % 2)) % 2) + 2 * xorBits(a \div 2, b \div 2, n - 1)

xorU32(a, b) == <<xorBits(a[1], b[1], 16), xorBits(a[2], b[2], 16)>>

\* a >> 1 for uint32
shr1U32(a) == <<a[1] \div 2, (a[2] \div 2) + (a[1] % 2) * 32768>>

\* the byte of a character ([]byte(s) for the ASCII characters used here)
Ord(ch) ==
    LET at(table) == CHOOSE i \in 1..Len(table) : SubSeq(table, i, i) = ch
    IN IF Contains("0123456789", ch) THEN 47 + at("0123456789")
       ELSE IF Contains("ABCDEFGHIJKLMNOPQRSTUVWXYZ", ch)
            THEN 64 + at("ABCDEFGHIJKLMNOPQRSTUVWXYZ")
       ELSE IF Contains("abcdefghijklmnopqrstuvwxyz", ch)
            THEN 96 + at("abcdefghijklmnopqrstuvwxyz")
       ELSE IF ch = "-" THEN 45
       ELSE IF ch = "_" THEN 95
       ELSE 63

\* []byte(s)
bytesOf(s) == [i \in 1..Len(s) |-> Ord(SubSeq(s, i, i))]

\* crc32.ChecksumIEEE: the reflected CRC-32 with polynomial 0xEDB88320
crcPoly == <<60856, 33568>>

RECURSIVE crcBits(_, _)
crcBits(c, n) ==
    IF n = 0 THEN c
    ELSE crcBits(IF c[2] % 2 = 1 THEN xorU32(shr1U32(c), crcPoly) ELSE shr1U32(c),
                 n - 1)

RECURSIVE crcUpdate(_, _)
crcUpdate(c, data) ==
    IF data = <<>> THEN c
    ELSE crcUpdate(crcBits(xorU32(c, <<0, Head(data)>>), 8), Tail(data))

ChecksumIEEE(data) == xorU32(crcUpdate(<<65535, 65535>>, data), <<65535, 65535>>)

\* binary.LittleEndian.PutUint16 / PutUint32 written to the buffer
packUint16ToBuf(val) == <<val % 256, (val \div 256) % 256>>

\* variant: the four bytes most significant first
packUint32ToBuf_bigEndian(val) ==
    <<val[1] \div 256, val[1] % 256, val[2] \div 256, val[2] % 256>>

packUint32ToBuf(val) ==
    <<val[2] % 256, val[2] \div 256, val[1] % 256, val[1] \div 256>>

\* packBytesToBuf: uint16(len(val)) and the bytes
packBytesToBuf(val) == packUint16ToBuf(Len(val) % 65536) \o val

----------------------------------------------------------------------------
(* encoding/base64 StdEncoding, crypto/hmac *)

B64Alphabet == "ABCDEFGHIJKLMNOPQRSTUVWXYZabcdefghijklmnopqrstuvwxyz0123456789+/"

b64Char(v) == SubSeq(B64Alphabet, v + 1, v + 1)

\* the concatenation of the strings seq[lo], ..., seq[hi]
RECURSIVE joinChars(_, _, _)
joinChars(seq, lo, hi) ==
    IF lo > hi THEN ""
    ELSE IF lo = hi THEN seq[lo]
    ELSE LET mid == (lo + hi) \div 2
         IN joinChars(seq, lo, mid) \o joinChars(seq, mid + 1, hi)

\* the j-th character of the base64 text of data: every 3 bytes give 4
\* characters of 6 bits each, a short last group is padded with "="
b64At(data, j) ==
    LET g == (j - 1) \div 4
        k == (j - 1) % 4
        n == Len(data)
        byte(i) == IF 3 * g + i <= n THEN data[3 * g + i] ELSE 0
    IN IF k = 0 THEN b64Char(byte(1) \div 4)
       ELSE IF k = 1 THEN b64Char((byte(1) % 4) * 16 + (byte(2) \div 16))
       ELSE IF k = 2
       THEN IF 3 * g + 2 > n THEN "="
            ELSE b64Char((byte(2) % 16) * 4 + (byte(3) \div 64))
       ELSE IF 3 * g + 3 > n THEN "=" ELSE b64Char(byte(3) % 64)

\* base64.StdEncoding.EncodeToString
EncodeToString(data) ==
    LET m == 4 * ((Len(data) + 2) \div 3)
    IN joinChars([j \in 1..m |-> b64At(data, j)], 1, m)

\* hmacSign.  HMAC-SHA256 is standard-library code; it is represented by a
\* keyed 32-byte digest: a position-weighted sum over the key, a separator
\* and the message, spread over 32 bytes.
RECURSIVE digestSum(_, _, _)
digestSum(data, lo, hi) ==
    IF lo > hi THEN 0
    ELSE IF lo = hi THEN ((data[lo] + 1) * (lo * lo + 7)) % 65521
    ELSE LET mid == (lo + hi) \div 2
         IN (digestSum(data, lo, mid) + digestSum(data, mid + 1, hi)) % 65521

digestBytes(h) == [i \in 1..32 |-> (h * (2 * i + 1) + i * i) % 256]

hmacSign(key, msg) ==
    LET data == bytesOf(key) \o <<255>> \o msg
    IN digestBytes(digestSum(data, 1, Len(data)))

----------------------------------------------------------------------------
(* agora.AccessToken *)

RolePublisher == 1
RoleSubscriber == 2
PrivilegeJoinChannel == 1
PrivilegePublishAudioStream == 2
PrivilegePublishVideoStream == 3
PrivilegePublishDataStream == 4

NoAccessToken ==
    [AppID |-> "", AppCertificate |-> "", ChannelName |-> "", UID |-> "",
     Ts |-> <<0, 0>>, Salt |-> <<0, 0>>, Message |-> <<>>,
     CrcChannelName |-> <<0, 0>>, CrcUID |-> <<0, 0>>]

\* NewAccessToken, with uint32(time.Now().Unix()) and rand.Uint32() given
NewAccessToken(appID, appCertificate, channelName, uid, now, salt) ==
    [AppID |-> appID, AppCertificate |-> appCertificate,
     ChannelName |-> channelName, UID |-> uid,
     Ts |-> addU32(now, U32(24 * 3600)), Salt |-> salt, Message |-> <<>>,
     CrcChannelName |-> ChecksumIEEE(bytesOf(channelName)),
     CrcUID |-> ChecksumIEEE(bytesOf(uid))]

\* AccessToken.AddPrivilege
AddPrivilege(token, privilege, expireTimestamp) ==
    [token EXCEPT !.Message = mapPut(@, privilege, expireTimestamp)]

\* the orders in which range can visit the keys of a map
Orders(keys) ==
    {o \in [1..Cardinality(keys) -> keys] :
        \A i, j \in 1..Cardinality(keys) : o[i] = o[j] => i = j}

RECURSIVE insertKey(_, _)
insertKey(sorted, k) ==
    IF sorted = <<>> THEN <<k>>
    ELSE IF k < Head(sorted) THEN <<k>> \o sorted
    ELSE <<Head(sorted)>> \o insertKey(Tail(sorted), k)

\* variant: the keys are left in iteration order
sortKeys_unsorted(keys) == keys

\* sort.Slice(keys, keys[i] < keys[j])
RECURSIVE sortKeys(_)
sortKeys(keys) ==
    IF keys = <<>> THEN <<>> ELSE insertKey(sortKeys(Tail(keys)), Head(keys))

RECURSIVE packEntries(_, _)
packEntries(val, keys) ==
    IF keys = <<>> THEN <<>>
    ELSE packUint16ToBuf(Head(keys)) \o packUint32ToBuf(val[Head(keys)])
         \o packEntries(val, Tail(keys))

\* variant: the entries are written in the order range visited the keys
packMapUint32ToBuf_rangeOrder(val, iter) ==
    packUint16ToBuf(Cardinality(DOMAIN val) % 65536) \o packEntries(val, iter)

\* packMapUint32ToBuf; iter is the order range visited the keys in
packMapUint32ToBuf(val, iter) ==
    packUint16ToBuf(Cardinality(DOMAIN val) % 65536)
    \o packEntries(val, sortKeys(iter))

\* AccessToken.packMessage
packMessage(token, iter) ==
    packUint32ToBuf(token.Salt) \o packUint32ToBuf(token.Ts)
    \o packMapUint32ToBuf(token.Message, iter)

\* packContent
packContent(sig, crcChannel, crcUid, msg) ==
    packBytesToBuf(sig) \o packUint32ToBuf(crcChannel)
    \o packUint32ToBuf(crcUid) \o packBytesToBuf(msg)

\* variant: the application identity is left out of the token string
Build_noAppID(token, iter) ==
    LET msg == packMessage(token, iter)
        val == bytesOf(token.AppID \o token.ChannelName \o token.UID) \o msg
        sig == hmacSign(token.AppCertificate, val)
        crcChannel == ChecksumIEEE(bytesOf(token.ChannelName))
        crcUid == ChecksumIEEE(bytesOf(token.UID))
        content == packContent(sig, crcChannel, crcUid, msg)
    IN [out |-> "006" \o EncodeToString(content), err |-> "",
        msg |-> msg, sig |-> sig, content |-> content]

\* AccessToken.Build: the token string, with the message, signature and
\* content it was made from
Build(token, iter) ==
    LET msg == packMessage(token, iter)
        val == bytesOf(token.AppID \o token.ChannelName \o token.UID) \o msg
        sig == hmacSign(token.AppCertificate, val)
        crcChannel == ChecksumIEEE(bytesOf(token.ChannelName))
        crcUid == ChecksumIEEE(bytesOf(token.UID))
        content == packContent(sig, crcChannel, crcUid, msg)
    IN [out |-> "006" \o token.AppID \o EncodeToString(content), err |-> "",
        msg |-> msg, sig |-> sig, content |-> content]

\* variant: the publisher role is not given the data stream privilege
rolePrivileges_noData(role) ==
    IF role = RolePublisher
    THEN <<PrivilegeJoinChannel, PrivilegePublishAudioStream,
           PrivilegePublishVideoStream>>
    ELSE <<PrivilegeJoinChannel>>

\* the privileges GenerateRTCToken adds for a role, in the order added
rolePrivileges(role) ==
    IF role = RolePublisher
    THEN <<PrivilegeJoinChannel, PrivilegePublishAudioStream,
           PrivilegePublishVideoStream, PrivilegePublishDataStream>>
    ELSE <<PrivilegeJoinChannel>>

RECURSIVE addAll(_, _, _)
addAll(token, privileges, expireTimestamp) ==
    IF privileges = <<>> THEN token
    ELSE addAll(AddPrivilege(token, Head(privileges), expireTimestamp),
                Tail(privileges), expireTimestamp)

\* the token GenerateRTCToken builds; now2 is its own reading of the clock
generatedToken(in) ==
    addAll(NewAccessToken(in.appID, in.appCertificate, in.channelName, in.uid,
                          in.now, in.salt),
           rolePrivileges(in.role), addU32(in.now2, in.expireSeconds))

\* what a failed call returns
tokenError(text) ==
    [out |-> "", err |-> text, msg |-> <<>>, sig |-> <<>>, content |-> <<>>]

\* variant: the certificate is not checked
GenerateRTCToken_noCertCheck(in, iter) ==
    IF in.appID = "" THEN tokenError("appID is required")
    ELSE Build(generatedToken(in), iter)

\* GenerateRTCToken
GenerateRTCToken(in, iter) ==
    IF in.appID = "" THEN tokenError("appID is required")
    ELSE IF in.appCertificate = "" THEN tokenError("appCertificate is required")
    ELSE Build(generatedToken(in), iter)

\* inputs
TokAppIDs == {"", "app1"}
TokCerts == {"", "cert9"}
TokChannels == {"", "c1"}
TokUIDs == {"", "7"}
TokRoles == {0, RolePublisher, RoleSubscriber}
TokExpireSeconds == {U32(0), U32(86400), <<65535, 65535>>}
\* uint32(time.Now().Unix()): a current time, and one 24 hours before 2^32
TokNows == {U32(1762300800), <<65534, 44736>>}
TokSalts == {<<0, 0>>, <<4660, 22136>>}
TokExpiries == {U32(100), U32(200)}
PrivilegeCodes == {PrivilegeJoinChannel, PrivilegePublishAudioStream,
                   PrivilegePublishVideoStream, PrivilegePublishDataStream}
\* privilege codes given to AddPrivilege directly: two of the named ones and
\* a uint16 whose two bytes differ
AddCodes == {PrivilegeJoinChannel, PrivilegePublishDataStream, 258}

TokenInputs(appID, appCertificate, channelName, uid, role, expireSeconds, now, now2, salt) ==
    [appID |-> appID, appCertificate |-> appCertificate,
     channelName |-> channelName, uid |-> uid, role |-> role,
     expireSeconds |-> expireSeconds, now |-> now, now2 |-> now2, salt |-> salt]

NoInputs == TokenInputs("", "", "", "", 0, <<0, 0>>, <<0, 0>>, <<0, 0>>, <<0, 0>>)

\* a call of GenerateRTCToken; the clock may tick between its two readings
TokGenerate ==
    /\ tok.phase = "none"
    /\ \E appID \in TokAppIDs, cert \in TokCerts, cname \in TokChannels,
          uid \in TokUIDs, role \in TokRoles, expire \in TokExpireSeconds,
          now \in TokNows, tick \in {0, 1}, salt \in TokSalts :
         LET in == TokenInputs(appID, cert, cname, uid, role, expire,
                               now, addU32(now, U32(tick)), salt)
             t  == generatedToken(in)
         IN \E iter \in Orders(DOMAIN t.Message) :
              \E r \in {GenerateRTCToken(in, iter)} :
                 tok' = [phase |-> "generated",
                         token |-> IF r.err = "" THEN t ELSE NoAccessToken,
                         adds |-> <<>>, in |-> in, out |-> r.out,
                         err |-> r.err, msg |-> r.msg, sig |-> r.sig,
                         content |-> r.content, builds |-> 0]
    /\ UNCHANGED <<svcVars, auth, load>>

\* NewAccessToken called directly
TokNew ==
    /\ tok.phase = "none"
    /\ tok' = [NoToken EXCEPT
                 !.phase = "new",
                 !.token = NewAccessToken("app1", "cert9", "c1", "7",
                                          U32(1762300800), <<4660, 22136>>)]
    /\ UNCHANGED <<svcVars, auth, load>>

\* AddPrivilege called directly, before the token is built
TokAdd ==
    /\ tok.phase = "new"
    /\ Len(tok.adds) < MaxAdds
    /\ \E p \in AddCodes, e \in TokExpiries :
         tok' = [tok EXCEPT !.token = AddPrivilege(@, p, e),
                            !.adds = Append(@, <<p, e>>)]
    /\ UNCHANGED <<svcVars, auth, load>>

\* Build called directly
TokBuild ==
    /\ tok.phase \in {"new", "built"}
    /\ tok.builds < MaxBuilds
    /\ \E iter \in Orders(DOMAIN tok.token.Message) :
         \E r \in {Build(tok.token, iter)} :
            tok' = [tok EXCEPT !.phase = "built", !.out = r.out, !.err = r.err,
                               !.msg = r.msg, !.sig = r.sig,
                               !.content = r.content, !.builds = @ + 1]
    /\ UNCHANGED <<svcVars, auth, load>>

TokenNext == TokGenerate \/ TokNew \/ TokAdd \/ TokBuild

TokenSpec == FilesInit /\ [][TokenNext]_vars

----------------------------------------------------------------------------
(* Properties *)

\* worker w has returned from StopRecording / StartRecording
StopDone(w)  == pc[w] = "done" /\ req[w].op = "stop"
StartDone(w) == pc[w] = "done" /\ req[w].op = "start"

\* the request of w touched neither the remote stop endpoint, nor the
\* gallery, nor the map
NoStopEffects(w) ==
    /\ calls[w].stop = 0
    /\ calls[w].catalog = 0
    /\ calls[w].inserts = 0
    /\ calls[w].deletes = 0

\* C1: a StopRecording whose lookup finds no record for the sessionId returns
\* the not-found error, sends no stop request, writes no gallery row and does
\* not write the map (the sessionId is still absent when it returns).
C1_StopUnknownSession ==
    \A w \in Workers :
        (StopDone(w) /\ ~recording[w].exists) =>
            /\ ~ret[w].ok
            /\ HasPrefix(ret[w].err, "recording not found for sid: " \o req[w].SID)
            /\ NoStopEffects(w)
            /\ req[w].SID \notin DOMAIN activeRecordings

\* C1 witness: a Stop for an absent sessionId has returned while another
\* session is recorded in the map
C1_Witness ==
    \E w \in Workers :
        /\ StopDone(w) /\ ~recording[w].exists /\ ret[w].done
        /\ DOMAIN activeRecordings # {}

\* the looked-up record differs from the request in some identity field
Mismatch(w) ==
    /\ recording[w].exists
    /\ \/ recording[w].ResourceID # req[w].ResourceID
       \/ recording[w].ChannelName # req[w].ChannelName
       \/ recording[w].UID # req[w].UID

\* C2: a StopRecording that finds the record but carries a different
\* resourceId, channelName or UID returns a mismatch error, sends no stop
\* request, writes no gallery row and leaves the record in the map as it was.
C2_StopMismatchNoEffect ==
    \A w \in Workers :
        (StopDone(w) /\ Mismatch(w)) =>
            /\ ~ret[w].ok
            /\ Contains(ret[w].err, " mismatch. ")
            /\ NoStopEffects(w)
            /\ mapGet(activeRecordings, req[w].SID) = recording[w]

\* C2 witness: a Stop with the right sessionId, resourceId and channelName
\* but another UID has returned
C2_Witness ==
    \E w \in Workers :
        /\ StopDone(w) /\ recording[w].exists /\ ret[w].done
        /\ recording[w].ResourceID = req[w].ResourceID
        /\ recording[w].ChannelName = req[w].ChannelName
        /\ recording[w].UID # req[w].UID

\* C3: the mismatch error names the first differing field in the order
\* resourceId, channelName, UID.
C3_MismatchOrder ==
    \A w \in Workers :
        (StopDone(w) /\ recording[w].exists) =>
            LET rec == recording[w]
                rq  == req[w]
            IN /\ rec.ResourceID # rq.ResourceID
                    => HasPrefix(ret[w].err, "resourceId mismatch.")
               /\ (rec.ResourceID = rq.ResourceID /\ rec.ChannelName # rq.ChannelName)
                    => HasPrefix(ret[w].err, "channelName mismatch.")
               /\ (rec.ResourceID = rq.ResourceID /\ rec.ChannelName = rq.ChannelName
                   /\ rec.UID # rq.UID)
                    => HasPrefix(ret[w].err, "UID mismatch.")

\* C3 witness: resourceId and UID both differ and the error names resourceId
C3_Witness ==
    \E w \in Workers :
        /\ StopDone(w) /\ recording[w].exists
        /\ recording[w].ResourceID # req[w].ResourceID
        /\ recording[w].UID # req[w].UID
        /\ HasPrefix(ret[w].err, "resourceId mismatch.")

\* the identifiers a Stop request carries, as Start returns them
stopIdentifiers(rq) ==
    [ResourceID |-> rq.ResourceID, SID |-> rq.SID, CName |-> rq.ChannelName,
     UID |-> rq.UID]

C5_StopSuccessRemoves ==
    \A w \in Workers :
        (StopDone(w) /\ result[w].Success) =>
            /\ ret[w].ok /\ ret[w].err = ""
            /\ req[w].SID \notin DOMAIN activeRecordings
            /\ calls[w].deletes = 1

\* C5 witness: the gallery write failed and Stop returned success
C5_Witness ==
    \E w \in Workers :
        /\ StopDone(w) /\ result[w].Success /\ ret[w].ok
        /\ calls[w].catalog = 1 /\ ~calls[w].created

\* the row a Stop must have written: entity id stored at Start, the
\* returned file name and storage key
ExpectedRow(w) ==
    [LoadID |-> recording[w].LoadID, FileName |-> ret[w].FileName, S3Key |-> "",
     VideoRecordingKey |-> ret[w].S3Key]

C7_StopFailureKeepsRecord ==
    /\ \A w \in Workers :
         (StopDone(w) /\ recording[w].exists /\ ~Mismatch(w) /\ ~result[w].Success) =>
            /\ ~ret[w].ok
            /\ HasPrefix(ret[w].err, "failed to stop Agora recording: ")
            /\ calls[w].catalog = 0
            /\ calls[w].deletes = 0
            /\ mapGet(activeRecordings, req[w].SID) = recording[w]
            /\ stopValidation(mapGet(activeRecordings, req[w].SID), req[w]) = ""
    /\ \A w \in Workers : calls[w].deletes > 0 => (req[w].op = "stop" /\ result[w].Success)

\* C7 witness: three transient failures, the error is returned and the
\* record is still there
C7_Witness ==
    \E w \in Workers :
        /\ StopDone(w) /\ recording[w].exists /\ ~Mismatch(w)
        /\ calls[w].stop = 3 /\ ~ret[w].ok
        /\ req[w].SID \in DOMAIN activeRecordings

\* no active meeting room has this id
Unresolvable(roomID) ==
    ~\E m \in MeetingRooms : m.RoomID = roomID /\ m.Status = "active"

\* C8: a StartRecording whose roomId resolves to no active room returns the
\* not-found error with no acquire and no start request sent; and a
\* StartRecording that returns an error has written nothing to the map.
C8_StartFailureNoRecord ==
    \A w \in Workers :
        /\ (StartDone(w) /\ Unresolvable(req[w].RoomID)) =>
              /\ ~ret[w].ok
              /\ HasPrefix(ret[w].err, "meeting room not found: ")
              /\ calls[w].acquire = 0 /\ calls[w].start = 0
        /\ (StartDone(w) /\ ~ret[w].ok) =>
              /\ calls[w].inserts = 0
              /\ calls[w].deletes = 0

\* C8 witness: Start for an ended room returned not-found without a request
C8_Witness ==
    \E w \in Workers :
        /\ StartDone(w) /\ req[w].RoomID = "ended" /\ ~ret[w].ok
        /\ calls[w].acquire = 0

\* seconds slept before attempt retryCount+1
SleptBefore(rc) == IF rc = 0 THEN 0 ELSE IF rc = 1 THEN 3 ELSE 9

\* C9: one StopRecording call sends at most 3 stop requests and sleeps 3 s
\* before the second and 6 s before the third (9 s at most); success on the
\* third attempt is returned with that response's file after 9 s of sleep;
\* a failed third attempt is returned as the error.
C9_RetrySchedule ==
    \A w \in Workers :
        req[w].op = "stop" =>
            /\ retryCount[w] <= 2
            /\ calls[w].stop <= retryCount[w] + 1
            /\ calls[w].stop <= 3
            /\ calls[w].slept = SleptBefore(retryCount[w])
            /\ calls[w].slept <= 9
            /\ pc[w] = "stop_sleep" => retryCount[w] < 2
            /\ (StopDone(w) /\ calls[w].stop = 3 /\ result[w].Success) =>
                  /\ ret[w].ok /\ calls[w].slept = 9
                  /\ ret[w].FileName = stopResult(client, calls[w].lastStop.body).FileName
            /\ (StopDone(w) /\ calls[w].stop = 3 /\ ~result[w].Success) =>
                  /\ ~ret[w].ok
                  /\ HasPrefix(ret[w].err, "failed to stop Agora recording: stop recording failed: ")

\* C9 witness: two transient failures, then success with a file, 9 s slept
C9_Witness ==
    \E w \in Workers :
        /\ StopDone(w) /\ ret[w].ok /\ calls[w].stop = 3
        /\ calls[w].slept = 9 /\ ret[w].S3Key # ""

\* the remote error "request not completed" (code 65)
TransientClass(resp) ==
    /\ resp.kind = "http" /\ resp.status >= 400 /\ resp.body.json
    /\ \/ resp.body.code = 65
       \/ resp.body.error = "request not completed"
       \/ resp.body.message = "request not completed"
       \/ resp.body.reason = "request not completed"

\* C10: StopRecording backs off and retries only after a failure of the
\* transient class; any other failure of the stop request is returned
\* without a sleep.
C10_RetryOnlyTransient ==
    \A w \in Workers :
        pc[w] = "stop_sleep" => TransientClass(calls[w].lastStop)

----------------------------------------------------------------------------
(* agora.Client: configuration, call order, responses *)

\* no HTTP request of the current call has been sent
NothingSent(w) ==
    /\ calls[w].acquire = 0 /\ calls[w].start = 0
    /\ calls[w].stop = 0 /\ calls[w].query = 0

\* the storage destination is incomplete
StorageUnset == client.bucket = "" \/ client.accessKey = "" \/ client.secretKey = ""

\* C11: with no encodedKey no Client operation ever sends a request, Stop
\* neither sleeps nor retries, and each operation returns an error; with the
\* bucket, access key or secret key unset StartRecording returns a
\* configuration error and sends neither the acquire nor the start request.
C11_ConfigErrorsFirst ==
    \A w \in Workers :
        /\ client.encodedKey = "" =>
              /\ NothingSent(w)
              /\ calls[w].slept = 0 /\ retryCount[w] = 0 /\ pc[w] # "stop_sleep"
              /\ pc[w] = "done" => (~ret[w].ok /\ ret[w].err # "")
        /\ (StorageUnset /\ req[w].op = "start") =>
              /\ calls[w].acquire = 0 /\ calls[w].start = 0
              /\ pc[w] = "done" =>
                    (~ret[w].ok /\ HasSuffix(ret[w].err, "not configured for recording storage"))

\* C11 witness: Client.StopRecording has returned the credentials error
C11_Witness ==
    \E w \in Workers :
        /\ StopDone(w) /\ req[w].direct /\ client.encodedKey = ""
        /\ Contains(ret[w].err, "Agora REST API credentials not configured")
        /\ calls[w].stop = 0

\* the acquire request of the current call got no usable answer: not sent,
\* a transport failure, an error status, or a body that is not a JSON object
AcquireFailed(w) ==
    LET a == calls[w].lastAcquire
    IN \/ calls[w].acquire = 0
       \/ a.kind # "http"
       \/ a.status >= 400
       \/ ~a.body.json

\* the acquire response carried no resourceId, or an empty one
NoResourceId(w) ==
    calls[w].lastAcquire.body.resourceId \in {Absent, ""}

\* C12: StartRecording sends at most one acquire and one start request; the
\* start request is sent after the acquire request answered with a non-empty
\* resourceId and goes to that resourceId's start endpoint; after a failed
\* acquire or one without a resourceId no start request is sent and an error
\* is returned; a successful result carries the resourceId acquire returned.
C12_AcquireThenStart ==
    \A w \in Workers :
        req[w].op = "start" =>
            /\ calls[w].acquire <= 1 /\ calls[w].start <= 1
            /\ calls[w].start = 1 =>
                  /\ calls[w].startAfterAcquire = 1
                  /\ ~AcquireFailed(w) /\ ~NoResourceId(w)
                  /\ calls[w].startTo = "/cloud_recording/resourceid/"
                                        \o calls[w].lastAcquire.body.resourceId
                                        \o "/mode/mix/start"
            /\ (pc[w] = "done" /\ (AcquireFailed(w) \/ NoResourceId(w))) =>
                  (calls[w].start = 0 /\ ~ret[w].ok /\ ret[w].err # "")
            /\ (pc[w] = "done" /\ ret[w].ok) =>
                  /\ calls[w].start = 1
                  /\ ret[w].ResourceID = calls[w].lastAcquire.body.resourceId

\* C12 witness: acquire answered r65, the start request went to r65 and
\* the result carries r65
C12_Witness ==
    \E w \in Workers :
        /\ StartDone(w) /\ ret[w].ok /\ ret[w].ResourceID = "r65"
        /\ calls[w].startTo = "/cloud_recording/resourceid/r65/mode/mix/start"

\* the response is an HTTP response with a status in 200..299
Is2xx(resp) == resp.kind = "http" /\ resp.status >= 200 /\ resp.status <= 299

\* C13: a Client operation returns a success result only from responses
\* whose status is in 200..299; any other status makes it return an error.
C13_Non2xxIsError ==
    \A w \in Workers :
        (pc[w] = "done" /\ ret[w].ok) =>
            /\ req[w].op = "start" =>
                  (Is2xx(calls[w].lastAcquire) /\ Is2xx(calls[w].lastStart))
            /\ req[w].op = "stop" => Is2xx(calls[w].lastStop)
            /\ req[w].op = "query" => Is2xx(calls[w].lastQuery)

----------------------------------------------------------------------------
(* Error texts *)

\* the response that made the current call fail, if it was an HTTP response
\* with an error status
FailedResponse(w) ==
    IF req[w].op = "start"
    THEN (IF calls[w].start = 1 THEN calls[w].lastStart ELSE calls[w].lastAcquire)
    ELSE IF req[w].op = "stop" THEN calls[w].lastStop
    ELSE calls[w].lastQuery

\* the message text of an error body: the error, message or reason field, or
\* the raw body
UpstreamText(body) ==
    IF ~body.json THEN body.raw
    ELSE IF body.error # Absent THEN body.error
    ELSE IF body.message # Absent THEN body.message
    ELSE IF body.reason # Absent THEN body.reason
    ELSE ""

\* C14: the error a caller of RecordingService gets after a remote HTTP error
\* response contains the status code and the upstream message text, for
\* every error status.
C14_ErrorKeepsStatusAndText ==
    \A w \in Workers :
        (pc[w] = "done" /\ ~ret[w].ok
         /\ FailedResponse(w).kind = "http" /\ FailedResponse(w).status >= 400) =>
            /\ Contains(ret[w].err, FmtInt(FailedResponse(w).status))
            /\ Contains(ret[w].err, UpstreamText(FailedResponse(w).body))

----------------------------------------------------------------------------
(* File selection *)

\* the entry is an object whose fileName ends with ".mp4"
IsMp4(e) == e.isMap /\ e.fileName # Absent /\ HasSuffix(e.fileName, ".mp4")

\* the result's file fields are those of entry e (nothing for a missing field)
TakenFrom(res, e) ==
    /\ res.FileName = (IF e.fileName = Absent THEN "" ELSE e.fileName)
    /\ res.S3Key = res.FileName
    /\ res.FileSize = (IF e.fileSize < 0 THEN 0 ELSE e.fileSize)
    /\ res.Duration = (IF e.duration < 0 THEN 0 ELSE e.duration)

\* the list a stop response returned
ReturnedList(resp) ==
    IF resp.body.hasFileList THEN resp.body.fileList
    ELSE IF resp.body.hasSrFileList THEN resp.body.srFileList
    ELSE <<>>

\* C15: after a successful stop with a non-empty file list the result's file
\* name, storage key, size and duration are those of the first entry whose
\* name ends with ".mp4", or of the first entry when there is none; with an
\* empty or absent list the result is a success without file name and key.
C15_FileSelection ==
    \A w \in Workers :
        (StopDone(w) /\ ret[w].ok) =>
            LET fl == ReturnedList(calls[w].lastStop)
            IN /\ result[w].Success
               /\ fl # <<>> =>
                    \E i \in 1..Len(fl) :
                        /\ \/ IsMp4(fl[i]) /\ \A j \in 1..(i - 1) : ~IsMp4(fl[j])
                           \/ i = 1 /\ \A j \in 1..Len(fl) : ~IsMp4(fl[j])
                        /\ TakenFrom(result[w], fl[i])
                        /\ ret[w].FileName = result[w].FileName
                        /\ ret[w].S3Key = result[w].S3Key
               /\ fl = <<>> => (result[w].FileName = "" /\ result[w].S3Key = "")

\* C15 witness: the second of two .mp4 entries comes last, a playlist first;
\* the first .mp4 was selected
C15_Witness ==
    \E w \in Workers :
        /\ StopDone(w) /\ ret[w].ok
        /\ ReturnedList(calls[w].lastStop)
             = <<FileEntry("a.m3u8", 300, 30), FileEntry("a.mp4", 100, 10),
                 FileEntry("b.mp4", 200, 20)>>
        /\ result[w].FileName = "a.mp4" /\ result[w].FileSize = 100

----------------------------------------------------------------------------
(* Storage folder path *)

\* positions of the ASCII letters and digits of s
AlnumPositions(s) == {i \in 1..Len(s) : isAlphanumeric(SubSeq(s, i, i))}

\* seg is s with every character that is not an ASCII letter or digit
\* removed, the others in their order
IsStripped(seg, s) ==
    LET keep == AlnumPositions(s)
        nth(k) == CHOOSE i \in keep : Cardinality({j \in keep : j <= i}) = k
    IN /\ Len(seg) = Cardinality(keep)
       /\ \A k \in 1..Len(seg) : SubSeq(seg, k, k) = SubSeq(s, nth(k), nth(k))

\* C16: the folder path of a start request is <<"recordings", seg>> with seg
\* the label's letters and digits in order, or <<"recordings">> when the
\* label has none; every segment is non-empty and alphanumeric;
\* cleanAlphanumeric is idempotent.
C16_FolderPath ==
    \A w \in Workers :
        (req[w].op = "start" /\ calls[w].start = 1) =>
            LET label == loadNumberOf(meeting[w])
                path  == calls[w].startPrefix
            IN /\ path[1] = "recordings"
               /\ AlnumPositions(label) = {} => path = <<"recordings">>
               /\ AlnumPositions(label) # {} =>
                     (Len(path) = 2 /\ IsStripped(path[2], label))
               /\ \A k \in 1..Len(path) :
                     path[k] # "" /\ AlnumPositions(path[k]) = 1..Len(path[k])
               /\ label = "LOAD-2024-01!" => path = <<"recordings", "LOAD202401">>
               /\ cleanAlphanumeric(cleanAlphanumeric(label)) = cleanAlphanumeric(label)

\* C16 witness: a start request for the label "LOAD-2024-01!" was sent
C16_Witness ==
    \E w \in Workers :
        /\ req[w].op = "start" /\ calls[w].start = 1
        /\ loadNumberOf(meeting[w]) = "LOAD-2024-01!"
        /\ calls[w].startPrefix = <<"recordings", "LOAD202401">>

----------------------------------------------------------------------------
(* Region codes *)

\* the region table: the name at position k has code k - 1
RegionTable ==
    << "us-east-1", "us-east-2", "us-west-1", "us-west-2", "eu-west-1",
       "eu-west-2", "eu-west-3", "eu-central-1", "ap-southeast-1",
       "ap-southeast-2", "ap-northeast-1", "ap-northeast-2", "sa-east-1",
       "ca-central-1", "ap-south-1", "cn-north-1", "cn-northwest-1",
       "us-gov-west-1" >>

\* C17: the region code of a client is the code the table lists for its
\* region name, a value in 0..17 ("us-west-2" has 3), and 0 for every name
\* that is not in the table, the empty name included; that code is the one
\* sent in the start request.
C17_RegionCode ==
    /\ Len(RegionTable) = 18
    /\ \A k \in 1..Len(RegionTable) :
          client.awsRegion = RegionTable[k] => client.region = k - 1
    /\ (\A k \in 1..Len(RegionTable) : client.awsRegion # RegionTable[k])
          => client.region = 0
    /\ client.awsRegion = "us-west-2" => client.region = 3
    /\ client.region \in 0..17
    /\ \A w \in Workers :
          calls[w].start = 1 => calls[w].startRegion = client.region

\* C17 witness: a client for a region name not in the table sent a start
\* request with region 0
C17_Witness ==
    \E w \in Workers :
        /\ client.awsRegion = "us-west-3"
        /\ calls[w].start = 1 /\ calls[w].startRegion = 0

\* the 6-bit value of a base64 character
b64Value(ch) == (CHOOSE i \in 1..64 : SubSeq(B64Alphabet, i, i) = ch) - 1

\* base64 decoding of a text: whether it is well formed (whole groups of four
\* characters of the alphabet, with "=" only as the last one or two), and
\* the bytes it stands for
DecodeString(s) ==
    LET n == Len(s)
        pad == IF n >= 2 /\ SubSeq(s, n - 1, n) = "==" THEN 2
               ELSE IF n >= 1 /\ SubSeq(s, n, n) = "=" THEN 1 ELSE 0
        m == (n \div 4) * 3 - pad
        ok == /\ n % 4 = 0
              /\ \A j \in 1..(n - pad) : Contains(B64Alphabet, SubSeq(s, j, j))
        byteAt(i) ==
            LET g == (i - 1) \div 3
                k == (i - 1) % 3
                c(x) == b64Value(SubSeq(s, 4 * g + x, 4 * g + x))
            IN IF k = 0 THEN c(1) * 4 + (c(2) \div 16)
               ELSE IF k = 1 THEN (c(2) % 16) * 16 + (c(3) \div 4)
               ELSE (c(3) % 4) * 64 + c(4)
    IN [ok |-> ok, bytes |-> IF ok THEN [i \in 1..m |-> byteAt(i)] ELSE <<>>]

\* C18: a call of GenerateRTCToken with a non-empty application identity and
\* certificate returns no error, and its string is "006", then the
\* application identity, then a well-formed base64 text that decodes to the
\* packed content: the length-prefixed signature, the two checksums and the
\* length-prefixed message.
C18_TokenText ==
    (tok.phase = "generated" /\ tok.in.appID # ""
                             /\ tok.in.appCertificate # "") =>
        /\ tok.err = ""
        /\ Len(tok.out) > 3 + Len(tok.in.appID)
        /\ SubSeq(tok.out, 1, 3) = "006"
        /\ SubSeq(tok.out, 4, 3 + Len(tok.in.appID)) = tok.in.appID
        /\ \A rest \in {SubSeq(tok.out, 4 + Len(tok.in.appID), Len(tok.out))} :
             \A decoded \in {DecodeString(rest)} :
                decoded.ok /\ decoded.bytes = tok.content
        /\ Len(tok.content) = 2 + Len(tok.sig) + 4 + 4 + 2 + Len(tok.msg)
        /\ Len(tok.sig) = 32

\* C18 witness: a call for a publisher with an empty channel name returned
\* a token string
C18_Witness ==
    /\ tok.phase = "generated" /\ tok.err = ""
    /\ tok.in.appID = "app1" /\ tok.in.channelName = ""
    /\ tok.in.role = RolePublisher
    /\ Len(tok.out) > 7

\* the AddPrivilege calls made on the token, in call order: those made
\* directly, or those GenerateRTCToken makes for the role
PrivilegeHistory ==
    IF tok.phase = "generated"
    THEN LET e == addU32(tok.in.now2, tok.in.expireSeconds)
         IN IF tok.in.role = 1
            THEN << <<1, e>>, <<2, e>>, <<3, e>>, <<4, e>> >>
            ELSE << <<1, e>> >>
    ELSE tok.adds

\* C19: the privilege section of the message (after the 4-byte salt and the
\* 4-byte timestamp) is determined by the set of codes added and the last
\* expiry added for each, whatever the order of the calls and of the map
\* iteration: a little-endian uint16 count of the distinct codes, then one
\* 6-byte entry per code in strictly ascending code order, each holding the
\* code and the expiry of the last AddPrivilege for that code.
C19_PrivilegeBytes ==
    (tok.phase \in {"built", "generated"} /\ tok.err = "") =>
        \A hist \in {PrivilegeHistory} :
          \A sect \in {SubSeq(tok.msg, 9, Len(tok.msg))} :
            LET codes == {hist[i][1] : i \in DOMAIN hist}
                n == Cardinality(codes)
                last(c) ==
                    hist[CHOOSE i \in DOMAIN hist :
                            /\ hist[i][1] = c
                            /\ \A j \in DOMAIN hist : j > i => hist[j][1] # c][2]
                codeAt(k) == sect[6 * k - 3] + 256 * sect[6 * k - 2]
                expiryAt(k) == << sect[6 * k + 1] + 256 * sect[6 * k + 2],
                                  sect[6 * k - 1] + 256 * sect[6 * k] >>
            IN /\ Len(sect) = 2 + 6 * n
               /\ sect[1] + 256 * sect[2] = n
               /\ \A k \in 1..n :
                     /\ codeAt(k) \in codes
                     /\ expiryAt(k) = last(codeAt(k))
               /\ \A k \in 1..(n - 1) : codeAt(k) < codeAt(k + 1)

\* C19 witness: a token was built after three AddPrivilege calls, the second
\* for a smaller code than the first and the third replacing the expiry of
\* the first
C19_Witness ==
    /\ tok.phase = "built" /\ Len(tok.adds) = 3
    /\ tok.adds[2][1] < tok.adds[1][1]
    /\ tok.adds[3][1] = tok.adds[1][1]
    /\ tok.adds[3][2] # tok.adds[1][2]
    /\ Len(tok.msg) = 8 + 2 + 12

\* C20: a call of GenerateRTCToken returns an error and the empty string when
\* the application identity or the certificate is empty, and returns a token
\* and no error in every other case, whatever the channel name, the uid
\* (either may be empty), the role and the validity.
C20_FailsOnlyWithoutCredentials ==
    tok.phase = "generated" =>
        IF tok.in.appID = "" \/ tok.in.appCertificate = ""
        THEN tok.err # "" /\ tok.out = ""
        ELSE tok.err = "" /\ tok.out # ""

\* C20 witness: a call with an application identity and no certificate
\* returned an error
C20_Witness ==
    /\ tok.phase = "generated"
    /\ tok.in.appID = "app1" /\ tok.in.appCertificate = ""
    /\ tok.err = "appCertificate is required" /\ tok.out = ""

\* the fields of the message bytes of the token: the entry count, and the
\* code and expiry of the k-th entry
MsgCount == tok.msg[9] + 256 * tok.msg[10]
MsgCodeAt(k) == tok.msg[6 * k + 5] + 256 * tok.msg[6 * k + 6]
MsgExpiryAt(k) ==
    << tok.msg[6 * k + 9] + 256 * tok.msg[6 * k + 10],
       tok.msg[6 * k + 7] + 256 * tok.msg[6 * k + 8] >>

\* C21: a token generated for the publisher role (1) encodes exactly the
\* four privileges 1, 2, 3, 4, all with the same expiry; a token generated
\* for the subscriber role (2) encodes exactly the privilege 1; every
\* generated token encodes the privilege 1.
C21_RolePrivileges ==
    (tok.phase = "generated" /\ tok.err = "") =>
        /\ Len(tok.msg) = 10 + 6 * MsgCount
        /\ tok.in.role = 1 =>
              /\ MsgCount = 4
              /\ \A k \in 1..4 : MsgCodeAt(k) = k
              /\ \A k \in 1..4 : MsgExpiryAt(k) = MsgExpiryAt(1)
        /\ tok.in.role = 2 => (MsgCount = 1 /\ MsgCodeAt(1) = 1)
        /\ \E k \in 1..MsgCount : MsgCodeAt(k) = 1

\* C21 witness: a token was generated for the publisher role and carries
\* four entries
C21_Witness ==
    /\ tok.phase = "generated" /\ tok.err = ""
    /\ tok.in.role = 1 /\ MsgCount = 4 /\ MsgCodeAt(4) = 4

\* the message-level timestamp in the message bytes of the token
MsgTs ==
    << tok.msg[7] + 256 * tok.msg[8], tok.msg[5] + 256 * tok.msg[6] >>

\* C22: in every generated token the expiry of each privilege is the time
\* of the call plus the validity, and the message timestamp is the time of
\* the call plus 86400, as sums of natural numbers: neither is a value that
\* wrapped around 2^32 to a time before the call.
C22_ExpiryIsSum ==
    (tok.phase = "generated" /\ tok.err = "") =>
        /\ \A k \in 1..MsgCount :
              /\ MsgExpiryAt(k) = addU32(tok.in.now2, tok.in.expireSeconds)
              /\ ~ltU32(MsgExpiryAt(k), tok.in.now)
        /\ MsgTs = addU32(tok.in.now, U32(86400))
        /\ ~ltU32(MsgTs, tok.in.now)

\* the calls for which the sums stay below 2^32: a current clock and a
\* validity of at most a day
SumsFit ==
    /\ tok.in.now = U32(1762300800)
    /\ ~ltU32(U32(86400), tok.in.expireSeconds)

\* for those calls the expiry and the timestamp are the sums
ExpiryIsSumWhenFits == SumsFit => C22_ExpiryIsSum

\* a call with validity 2^32 - 1 at a current time returned a token whose
\* expiry lies before the time of the call
ExpiryWrapped ==
    /\ tok.phase = "generated" /\ tok.err = ""
    /\ tok.in.now = U32(1762300800)
    /\ tok.in.expireSeconds = <<65535, 65535>>
    /\ ltU32(MsgExpiryAt(1), tok.in.now)

\* the little-endian bytes of a uint32 and of a uint16
LittleEndian32(v) == <<v[2] % 256, v[2] \div 256, v[1] % 256, v[1] \div 256>>
LittleEndian16(n) == <<n % 256, n \div 256>>

\* reference CRC-32 values of the channel names and uids used
ReferenceCrc(s) ==
    IF s = "" THEN <<0, 0>>
    ELSE IF s = "c1" THEN <<24279, 10913>>
    ELSE IF s = "7" THEN <<27327, 19074>>
    ELSE <<65535, 65535>>

\* C23: the message of a built token is the salt (4 bytes, little-endian),
\* the message timestamp (4 bytes), the entry count (2 bytes) and count
\* entries of 6 bytes, 10 + 6 * count bytes in all; the content is the
\* 2-byte length of the signature, the signature, the CRC-32 of the channel
\* name (4 bytes), the CRC-32 of the uid (4 bytes), the 2-byte length of the
\* message and the message, both lengths being the true lengths; the
\* signature is the keyed digest of application identity, channel name, uid
\* and message concatenated in that order.
C23_WireLayout ==
    (tok.phase \in {"generated", "built"} /\ tok.err = "") =>
        \A m \in {tok.msg}, c \in {tok.content}, t \in {tok.token} :
            /\ Len(m) = 10 + 6 * MsgCount
            /\ SubSeq(m, 1, 4) = LittleEndian32(t.Salt)
            /\ SubSeq(m, 5, 8) = LittleEndian32(t.Ts)
            /\ MsgCount = Cardinality(DOMAIN t.Message)
            /\ \A k \in 1..MsgCount :
                  /\ MsgCodeAt(k) \in DOMAIN t.Message
                  /\ SubSeq(m, 6 * k + 5, 6 * k + 6) = LittleEndian16(MsgCodeAt(k))
                  /\ SubSeq(m, 6 * k + 7, 6 * k + 10)
                        = LittleEndian32(t.Message[MsgCodeAt(k)])
            /\ Len(c) = 2 + Len(tok.sig) + 4 + 4 + 2 + Len(m)
            /\ SubSeq(c, 1, 2) = LittleEndian16(Len(tok.sig))
            /\ SubSeq(c, 3, 2 + Len(tok.sig)) = tok.sig
            /\ SubSeq(c, 3 + Len(tok.sig), 6 + Len(tok.sig))
                  = LittleEndian32(ReferenceCrc(t.ChannelName))
            /\ SubSeq(c, 7 + Len(tok.sig), 10 + Len(tok.sig))
                  = LittleEndian32(ReferenceCrc(t.UID))
            /\ SubSeq(c, 11 + Len(tok.sig), 12 + Len(tok.sig))
                  = LittleEndian16(Len(m))
            /\ SubSeq(c, 13 + Len(tok.sig), Len(c)) = m
            /\ tok.sig = hmacSign(t.AppCertificate,
                                  bytesOf(t.AppID \o t.ChannelName \o t.UID) \o m)

\* C23 witness: a token with the salt 0x12345678, a channel name and a uid
\* was generated for a publisher: a 34-byte message in a 78-byte content
C23_Witness ==
    /\ tok.phase = "generated" /\ tok.err = ""
    /\ tok.token.Salt = <<4660, 22136>>
    /\ tok.token.ChannelName = "c1" /\ tok.token.UID = "7"
    /\ Len(tok.msg) = 34 /\ Len(tok.content) = 78

\* a step in which Build is called on the token directly
BuildStep == tok'.builds = tok.builds + 1

\* C24: a call of Build leaves the token as it was, and a call of Build on a
\* token that was built before returns the same string, made from the same
\* signature, message and content, whatever order the map is visited in: the
\* result depends on the fields of the token only.
C24_BuildIdempotent ==
    [][BuildStep =>
          /\ tok'.token = tok.token
          /\ tok'.err = ""
          /\ tok.builds >= 1 =>
                /\ tok'.out = tok.out
                /\ tok'.sig = tok.sig
                /\ tok'.msg = tok.msg
                /\ tok'.content = tok.content]_vars

\* C24 witness: Build was called twice on a token with three privileges
C24_Witness ==
    /\ tok.phase = "built" /\ tok.builds = 2
    /\ Cardinality(DOMAIN tok.token.Message) = 3
    /\ Len(tok.out) > 7

\* worker w is about to write the map (insert or delete) / to read it
AtMapWrite(w) == pc[w] \in {"start_insert", "stop_delete"}
AtMapRead(w) == pc[w] = "stop_lookup"

\* the lock is held as the accesses need it
LockDiscipline ==
    /\ \A w \in Workers :
          /\ AtMapWrite(w) <=> mu.writer = w
          /\ AtMapRead(w) <=> w \in mu.readers
    /\ mu.writer # 0 => mu.readers = {}
    /\ \A w, v \in Workers :
          (w # v /\ AtMapWrite(w)) => (~AtMapWrite(v) /\ ~AtMapRead(v))

LookupsOverlap ==
    \E w, v \in Workers : w # v /\ AtMapRead(w) /\ AtMapRead(v)

\* C26: ValidateAdminCredentials returns nil exactly when the username and
\* the password both equal the configured ones, "invalid password" exactly
\* when the username equals the configured one and the password does not,
\* and "user not found" exactly when the username differs, whatever the
\* password.
C26_ThreeWayDecision ==
    auth.called =>
        /\ auth.err = "" <=>
              (auth.username = auth.Username /\ auth.password = auth.Password)
        /\ auth.err = "invalid password" <=>
              (auth.username = auth.Username /\ auth.password # auth.Password)
        /\ auth.err = "user not found" <=> auth.username # auth.Username

\* C26 witness: the configured username was presented with another password
C26_Witness ==
    /\ auth.called /\ auth.Username = "admin" /\ auth.username = "admin"
    /\ auth.Password = "password123" /\ auth.password = "wrongpassword"
    /\ auth.err = "invalid password"

\* the Stop requests for session sid that returned success / wrote a row
StopsReturnedOk(sid) ==
    {w \in Workers : req[w].op = "stop" /\ req[w].SID = sid /\ ret[w].ok}
StopsWroteCatalog(sid) ==
    {w \in Workers : req[w].op = "stop" /\ req[w].SID = sid
                     /\ calls[w].catalog > 0}

\* C27: a session id is issued once, so it names one started recording; of
\* the Stop requests for it, in every interleaving, at most one returns
\* success and at most one writes a media-catalog row.
C27_StoppedAtMostOnce ==
    \A sid \in SidPool \ {""} :
        /\ Cardinality(StopsReturnedOk(sid)) <= 1
        /\ Cardinality(StopsWroteCatalog(sid)) <= 1

\* two Stop requests for one recording both returned success, each after
\* writing a row
StoppedTwice ==
    \E w, v \in Workers :
        /\ w # v /\ pc[w] = "done" /\ pc[v] = "done"
        /\ req[w] = req[v] /\ req[w].op = "stop"
        /\ ret[w].ok /\ ret[v].ok
        /\ calls[w].catalog = 1 /\ calls[v].catalog = 1
        /\ calls[w].deletes = 1 /\ calls[v].deletes = 1

\* C28: a Start that returned success had an acquire response with a
\* non-empty resourceId and a start response with a non-empty sid, and
\* returns both; every key of the activeRecordings map is a non-empty
\* session id, is the SID of the record stored under it, and that record
\* has a non-empty ResourceID.
C28_UsableIdentifiers ==
    /\ \A w \in Workers :
          (req[w].op = "start" /\ ret[w].ok) =>
              /\ calls[w].lastAcquire.body.resourceId \notin {Absent, ""}
              /\ calls[w].lastStart.body.sid \notin {Absent, ""}
              /\ ret[w].ResourceID = calls[w].lastAcquire.body.resourceId
              /\ ret[w].SID = calls[w].lastStart.body.sid
    /\ \A k \in DOMAIN activeRecordings :
          /\ k # ""
          /\ activeRecordings[k].SID = k
          /\ activeRecordings[k].ResourceID # ""

\* the same with the empty session id allowed: the sid is a string
IdentifiersExceptEmptySid ==
    /\ \A w \in Workers :
          (req[w].op = "start" /\ ret[w].ok) =>
              /\ calls[w].lastAcquire.body.resourceId \notin {Absent, ""}
              /\ calls[w].lastStart.body.sid # Absent
              /\ ret[w].ResourceID = calls[w].lastAcquire.body.resourceId
              /\ ret[w].SID = calls[w].lastStart.body.sid
    /\ \A k \in DOMAIN activeRecordings :
          /\ activeRecordings[k].SID = k
          /\ activeRecordings[k].ResourceID # ""

\* a Start answered with the sid "" returned success and stored a record
\* under the empty key
EmptySidStarted ==
    \E w \in Workers :
        /\ req[w].op = "start" /\ ret[w].ok /\ ret[w].SID = ""
        /\ "" \in DOMAIN activeRecordings

\* worker w is in, or about to make, a call outside the service: the
\* meeting lookup, a remote acquire/start/stop request, the backoff sleep
\* or the gallery write
AtExternalCall(w) ==
    pc[w] \in {"start_lookup", "start_acquire", "start_start",
               "stop_remote", "stop_sleep", "stop_catalog"}
HoldsLock(w) == mu.writer = w \/ w \in mu.readers
WaitsForLock(w) == pc[w] \in {"start_lock", "stop_rlock", "stop_lock"}

CompletesFor(w, d) ==
    /\ load.requests[w].pc = "update_write"
    /\ load'.requests[w].pc = "done"
    /\ load.requests[w].driverID = d

LoadLifecycleStep ==
    /\ load'.Status # load.Status =>
         <<load.Status, load'.Status>> \in
            {<<"Unassigned", "Assigned">>, <<"Assigned", "Completed">>}
    /\ load.Status = "Completed" =>
         load'.Status = "Completed" /\ load'.DriverID = load.DriverID
    /\ (load.Status # "Completed" /\ load'.Status = "Completed") =>
         load.DriverID # 0 /\ \E w \in Workers : CompletesFor(w, load.DriverID)
    /\ (~load.MeetingStarted /\ load'.MeetingStarted) => load.Status = "Completed"

\* C30: in every interleaving of AssignDriverToLoad, UpdateLoadStatus /
\* MarkLoadCompleted and StartMeeting on one load, the status changes only
\* from Unassigned to Assigned and from Assigned to Completed; a Completed
\* load keeps its status and its driver; the step that completes the load is
\* taken for the driver assigned at that moment; and meeting_started is set
\* only while the load is Completed.
C30_StatusLifecycle == [][LoadLifecycleStep]_vars

\* a load whose completion was reported to its driver is Assigned again
CompletedLoadReassigned ==
    \E w \in Workers :
        /\ load.requests[w] = [NoLoadRequest EXCEPT !.op = "update", !.pc = "done",
                                  !.driverID = load.requests[w].driverID,
                                  !.status = "Completed"]
        /\ load.Status = "Assigned"

\* a load completed on behalf of a driver that is no longer assigned to it
CompletedByFormerDriver ==
    \E w \in Workers :
        /\ load.requests[w].op = "update" /\ load.requests[w].pc = "done"
        /\ load.requests[w].err = ""
        /\ load.Status = "Completed"
        /\ load.DriverID # load.requests[w].driverID
        /\ \A v \in Workers \ {w} : load.requests[v].op # "update"

\* a meeting marked as started on a load that is not Completed
MeetingStartedBeforeCompletion ==
    load.MeetingStarted /\ load.Status # "Completed"

====
